---- MODULE Spec2Model ----
(***************************************************************************)
(* A model of the sync pipeline of scouting_db: the relational store       *)
(* (db.py), the four tree-flattening upserts, the scout-rank normalizer    *)
(* and the two sync orchestrators (cli.cmd_sync_scouts and                 *)
(* native_sync.main).                                                      *)
(*                                                                         *)
(* Tables are sets of rows (records).  A Python value that is falsy when   *)
(* used as an id or a date (None, 0, "", a missing key) is written 0, a    *)
(* SQL NULL is written NULL.  Columns that are copied verbatim from one    *)
(* JSON node and never read back by the pipeline (name, short,             *)
(* requirement_number, sort_order, raw_json, ...) are left out of the      *)
(* rows.                                                                   *)
(***************************************************************************)
EXTENDS Integers, Sequences, FiniteSets, TLC

\* ------------------------------------------------------------------ bounds
\* The largest number of nodes of a requirement tree handed to an upsert.
MaxNodes == 3
\* Requirement ids of the tree nodes range over 0..MaxReqId (0: no id).
MaxReqId == 3
\* How often one call is repeated on the same store.
MaxRuns == 2

\* SQL NULL / Python None in an integer column.
NULL == 0

VARIABLES
    ranks,                              \* table ranks
    requirements,                       \* table requirements
    mb_requirements,                    \* table mb_requirements
    scouts,                             \* table scouts
    scout_advancements,                 \* table scout_advancements
    scout_requirement_completions,      \* table scout_requirement_completions
    scout_mb_requirement_completions,   \* table scout_mb_requirement_completions
    sqlite_sequence,                    \* AUTOINCREMENT counters, per table
    merit_badges,                       \* table merit_badges
    scout_merit_badges,                 \* table scout_merit_badges
    scout_leadership,                   \* table scout_leadership
    pc,                                 \* where the running command stands
    call,                               \* the call being made: function and arguments
    ret,                                \* what the last call returned
    runs,                               \* calls completed so far
    mode,                               \* the orchestrator: "cli" or "native"
    skip_reqs,                          \* its --skip-reqs flag
    api,                                \* what the remote API holds
    scout_idx,                          \* i of the scout loop
    ranks_data,                         \* <<>> (None) or <<the ranks response>>
    mb_data,                            \* <<>> (None) or <<the merit badge list>>
    pending,                            \* in-progress ranks or badges still to do
    req_count,                          \* rank_req_count / req_count of the scout
    rank_defn_cache,                    \* rank ids whose definitions are stored
    mb_defn_cache,                      \* badge id -> version id of stored definitions
    api_log,                            \* API calls made for the scout in hand
    api_status,                         \* HTTP status of the last API call
    api_errors,                         \* API calls that failed so far
    rank_defn_calls,                    \* get_rank_requirements calls so far, by rank id
    out                                 \* what the last step printed or emitted

badgeTables == <<merit_badges, scout_merit_badges, scout_leadership>>
tables == <<ranks, requirements, mb_requirements, scouts, scout_advancements,
            scout_requirement_completions, scout_mb_requirement_completions,
            sqlite_sequence, badgeTables>>
syncVars == <<mode, skip_reqs, api, scout_idx, ranks_data, mb_data, pending, req_count,
              rank_defn_cache, mb_defn_cache, api_log, api_status, api_errors,
              rank_defn_calls, out>>
vars == <<tables, pc, call, ret, runs, syncVars>>

\* The head of db.EAGLE_REQUIRED_MERIT_BADGES.
EAGLE_REQUIRED_MERIT_BADGES == << "Camping", "Cooking" >>

\* INSERT OR IGNORE INTO merit_badges (name, is_eagle_required, active)
RECURSIVE seed_eagle_merit_badges(_, _, _)
seed_eagle_merit_badges(mbTbl, seq, names) ==
    IF names = <<>> THEN [merit_badges |-> mbTbl, seq |-> seq]
    ELSE IF Head(names) \in { b.name : b \in mbTbl }
         THEN seed_eagle_merit_badges(mbTbl, seq, Tail(names))
         ELSE seed_eagle_merit_badges(
                  mbTbl \cup { [id |-> seq + 1, name |-> Head(names), is_eagle_required |-> 1] },
                  seq + 1, Tail(names))

\* init_db on a new file: the seeded merit_badges and the AUTOINCREMENT
\* counters.
Seeded == seed_eagle_merit_badges({}, 0, EAGLE_REQUIRED_MERIT_BADGES)

NoRowsYet == [scout_requirement_completions |-> 0, scout_mb_requirement_completions |-> 0,
              scout_advancements |-> 0, merit_badges |-> Seeded.seq,
              scout_merit_badges |-> 0, scout_leadership |-> 0]

\* No orchestrator runs: a database function is called on its own.
NoSync ==
    /\ mode = "none" /\ skip_reqs = FALSE /\ api = <<>> /\ scout_idx = 0
    /\ ranks_data = <<>> /\ mb_data = <<>> /\ pending = <<>> /\ req_count = 0
    /\ rank_defn_cache = {} /\ mb_defn_cache = {} /\ api_log = <<>>
    /\ api_status = 0 /\ api_errors = 0 /\ rank_defn_calls = <<>> /\ out = <<>>

\* ------------------------------------------------------- requirement trees
\* What one node of a requirement tree carries: its id (0: none) and whether
\* it has a completion date (dateCompleted / dateEarned).
\* The scout has completed requirement 1 and no other: a node of id 1 carries
\* a completion date (the definition upserts do not read it).
NodeLabels == { [id |-> i, date |-> IF i = 1 THEN 1 ELSE 0] : i \in 0..MaxReqId }

RECURSIVE TreesOfSize(_, _), ForestsOfSize(_, _)
\* The nodes with n nodes in all: a label, a "requirements" list and a
\* "children" list.
TreesOfSize(n, L) ==
    UNION { { [id |-> l.id, date |-> l.date, requirements |-> r, children |-> c] :
                l \in L, r \in ForestsOfSize(i, L), c \in ForestsOfSize(n - 1 - i, L) } :
            i \in 0..(n - 1) }
\* The lists of nodes with n nodes in all.
ForestsOfSize(n, L) ==
    IF n = 0 THEN { <<>> }
    ELSE UNION { { <<t>> \o f : t \in TreesOfSize(k, L), f \in ForestsOfSize(n - k, L) } :
                 k \in 1..n }
Forests(L) == UNION { ForestsOfSize(n, L) : n \in 0..MaxNodes }

\* The argument `requirements` of an upsert: a bare list, or a wrapper dict
\* exposing the list under "requirements" or under "value".
Wrappings(f) ==
    { [kind |-> "list", items |-> f, requirements |-> <<>>, value |-> <<>>],
      [kind |-> "dict", items |-> <<>>, requirements |-> f, value |-> <<>>],
      [kind |-> "dict", items |-> <<>>, requirements |-> <<>>, value |-> f] }

\* requirements.get("requirements") or requirements.get("value") or []
Unwrap(payload) ==
    IF payload.kind = "dict"
    THEN (IF payload.requirements # <<>> THEN payload.requirements ELSE payload.value)
    ELSE payload.items

\* req.get("requirements") or req.get("children") or []
Children_requirements_only(req) == req.requirements
Children(req) == IF req.requirements # <<>> THEN req.requirements ELSE req.children

\* ------------------------------------------------------------ row helpers
Ids(tbl) == { r.id : r \in tbl }

\* INSERT OR REPLACE INTO requirements / mb_requirements: the primary key is id.
ReplaceById(tbl, row) == { r \in tbl : r.id # row.id } \cup { row }

\* INSERT OR REPLACE INTO scout_requirement_completions:
\* UNIQUE(scout_user_id, requirement_id), and the surrogate primary key id.
ReplaceRankCompletion_no_unique(tbl, row) == tbl \cup { row }
ReplaceRankCompletion(tbl, row) ==
    { r \in tbl : /\ ~(r.scout_user_id = row.scout_user_id /\ r.requirement_id = row.requirement_id)
                  /\ r.id # row.id }
    \cup { row }

\* INSERT OR REPLACE INTO scout_mb_requirement_completions:
\* UNIQUE(scout_user_id, mb_requirement_id), and the surrogate primary key id.
ReplaceMbCompletion(tbl, row) ==
    { r \in tbl : /\ ~(r.scout_user_id = row.scout_user_id /\ r.mb_requirement_id = row.mb_requirement_id)
                  /\ r.id # row.id }
    \cup { row }

\* ------------------------------------------------- upsert_requirements
\* The INSERT statements of _walk, in the order it issues them: the id of the
\* node and the parent column.
RECURSIVE upsert_requirements_walk_distant_parent(_, _)
upsert_requirements_walk_distant_parent(reqs, parent_id) ==
    IF reqs = <<>> THEN <<>>
    ELSE LET req == Head(reqs)
             here == IF req.id = 0 THEN <<>>
                     ELSE <<[id |-> req.id, parent |-> IF parent_id # 0 THEN parent_id ELSE NULL]>>
                          \o upsert_requirements_walk_distant_parent(
                                Children(req), IF parent_id # 0 THEN parent_id ELSE req.id)
         IN  here \o upsert_requirements_walk_distant_parent(Tail(reqs), parent_id)

RECURSIVE upsert_requirements_walk(_, _)
upsert_requirements_walk(reqs, parent_id) ==
    IF reqs = <<>> THEN <<>>
    ELSE LET req == Head(reqs)
             here == IF req.id = 0 THEN <<>>
                     ELSE <<[id |-> req.id, parent |-> IF parent_id # 0 THEN parent_id ELSE NULL]>>
                          \o upsert_requirements_walk(Children(req), req.id)
         IN  here \o upsert_requirements_walk(Tail(reqs), parent_id)

\* The foreign keys of one requirements row: rank_id REFERENCES ranks(id),
\* parent_requirement_id REFERENCES requirements(id).
RequirementFkOk(ranksTbl, reqTbl, row) ==
    /\ row.rank_id \in Ids(ranksTbl)
    /\ row.parent_requirement_id = NULL \/ row.parent_requirement_id \in Ids(reqTbl)

\* Runs the INSERT statements one by one; the first one that breaks a foreign
\* key raises sqlite3.IntegrityError and the rest are not run.
RECURSIVE ExecRequirements(_, _, _, _, _)
ExecRequirements(ranksTbl, reqTbl, rank_id, stmts, count) ==
    IF stmts = <<>> THEN [raised |-> FALSE, count |-> count, requirements |-> reqTbl]
    ELSE LET row == [id |-> Head(stmts).id, rank_id |-> rank_id,
                     parent_requirement_id |-> Head(stmts).parent]
             after == ReplaceById(reqTbl, row)
         IN  IF RequirementFkOk(ranksTbl, after, row)
             THEN ExecRequirements(ranksTbl, after, rank_id, Tail(stmts), count + 1)
             ELSE [raised |-> TRUE, count |-> count, requirements |-> reqTbl]

upsert_requirements(ranksTbl, reqTbl, rank_id, payload) ==
    ExecRequirements(ranksTbl, reqTbl, rank_id,
                     upsert_requirements_walk(Unwrap(payload), 0), 0)

\* ---------------------------------------------- upsert_mb_requirements
RECURSIVE upsert_mb_requirements_walk(_, _)
upsert_mb_requirements_walk(reqs, parent_id) ==
    IF reqs = <<>> THEN <<>>
    ELSE LET req == Head(reqs)
             here == IF req.id = 0 THEN <<>>
                     ELSE <<[id |-> req.id, parent |-> IF parent_id # 0 THEN parent_id ELSE NULL]>>
                          \o upsert_mb_requirements_walk(Children(req), req.id)
         IN  here \o upsert_mb_requirements_walk(Tail(reqs), parent_id)

\* mb_requirements has no foreign key: no statement can fail.
RECURSIVE ExecMbRequirements(_, _, _, _, _)
ExecMbRequirements(mbReqTbl, mb_api_id, mb_version_id, stmts, count) ==
    IF stmts = <<>> THEN [raised |-> FALSE, count |-> count, mb_requirements |-> mbReqTbl]
    ELSE LET row == [id |-> Head(stmts).id, mb_api_id |-> mb_api_id,
                     mb_version_id |-> mb_version_id,
                     parent_requirement_id |-> Head(stmts).parent]
         IN  ExecMbRequirements(ReplaceById(mbReqTbl, row), mb_api_id, mb_version_id,
                                Tail(stmts), count + 1)

upsert_mb_requirements(mbReqTbl, mb_api_id, mb_version_id, payload) ==
    ExecMbRequirements(mbReqTbl, mb_api_id, mb_version_id,
                       upsert_mb_requirements_walk(Unwrap(payload), 0), 0)

\* ------------------------------------------ store_youth_mb_requirements
RECURSIVE store_youth_mb_requirements_walk(_)
store_youth_mb_requirements_walk(reqs) ==
    IF reqs = <<>> THEN <<>>
    ELSE LET req == Head(reqs)
             here == IF req.id = 0 THEN <<>>
                     ELSE <<[id |-> req.id, completed |-> IF req.date # 0 THEN 1 ELSE 0,
                             date_completed |-> IF req.date # 0 THEN req.date ELSE NULL]>>
                          \o store_youth_mb_requirements_walk(Children(req))
         IN  here \o store_youth_mb_requirements_walk(Tail(reqs))

\* scout_user_id REFERENCES scouts(user_id) is the only foreign key.
RECURSIVE ExecMbCompletions(_, _, _, _, _, _, _, _)
ExecMbCompletions(scoutsTbl, tbl, seq, user_id, mb_api_id, mb_version_id, stmts, count) ==
    IF stmts = <<>>
    THEN [raised |-> FALSE, count |-> count, completions |-> tbl, seq |-> seq]
    ELSE LET row == [id |-> seq + 1, scout_user_id |-> user_id,
                     mb_requirement_id |-> Head(stmts).id, mb_api_id |-> mb_api_id,
                     mb_version_id |-> mb_version_id, completed |-> Head(stmts).completed,
                     date_completed |-> Head(stmts).date_completed]
         IN  IF user_id \in { s.user_id : s \in scoutsTbl }
             THEN ExecMbCompletions(scoutsTbl, ReplaceMbCompletion(tbl, row), seq + 1, user_id,
                                    mb_api_id, mb_version_id, Tail(stmts), count + 1)
             ELSE [raised |-> TRUE, count |-> count, completions |-> tbl, seq |-> seq]

store_youth_mb_requirements(scoutsTbl, tbl, seq, user_id, mb_api_id, mb_version_id, payload) ==
    ExecMbCompletions(scoutsTbl, tbl, seq, user_id, mb_api_id, mb_version_id,
                      store_youth_mb_requirements_walk(Unwrap(payload)), 0)

\* ---------------------------------------- store_youth_rank_requirements
RECURSIVE store_youth_rank_requirements_walk(_)
store_youth_rank_requirements_walk(reqs) ==
    IF reqs = <<>> THEN <<>>
    ELSE LET req == Head(reqs)
             here == IF req.id = 0 THEN <<>>
                     ELSE <<[id |-> req.id, completed |-> IF req.date # 0 THEN 1 ELSE 0,
                             date_completed |-> IF req.date # 0 THEN req.date ELSE NULL]>>
                          \o store_youth_rank_requirements_walk(Children(req))
         IN  here \o store_youth_rank_requirements_walk(Tail(reqs))

\* The foreign keys of one scout_requirement_completions row (PRAGMA
\* foreign_keys=ON): scout_user_id, requirement_id, rank_id.
RankCompletionFkOk_off(scoutsTbl, ranksTbl, reqTbl, row) == TRUE

RankCompletionFkOk(scoutsTbl, ranksTbl, reqTbl, row) ==
    /\ row.scout_user_id \in { s.user_id : s \in scoutsTbl }
    /\ row.requirement_id \in Ids(reqTbl)
    /\ row.rank_id \in Ids(ranksTbl)

RECURSIVE ExecRankCompletions(_, _, _, _, _, _, _, _, _)
ExecRankCompletions(scoutsTbl, ranksTbl, reqTbl, tbl, seq, user_id, rank_id, stmts, count) ==
    IF stmts = <<>>
    THEN [raised |-> FALSE, count |-> count, completions |-> tbl, seq |-> seq]
    ELSE LET row == [id |-> seq + 1, scout_user_id |-> user_id,
                     requirement_id |-> Head(stmts).id, rank_id |-> rank_id,
                     completed |-> Head(stmts).completed,
                     date_completed |-> Head(stmts).date_completed]
         IN  IF RankCompletionFkOk(scoutsTbl, ranksTbl, reqTbl, row)
             THEN ExecRankCompletions(scoutsTbl, ranksTbl, reqTbl,
                                      ReplaceRankCompletion(tbl, row), seq + 1,
                                      user_id, rank_id, Tail(stmts), count + 1)
             ELSE [raised |-> TRUE, count |-> count, completions |-> tbl, seq |-> seq]

store_youth_rank_requirements(scoutsTbl, ranksTbl, reqTbl, tbl, seq, user_id, rank_id, payload) ==
    ExecRankCompletions(scoutsTbl, ranksTbl, reqTbl, tbl, seq, user_id, rank_id,
                        store_youth_rank_requirements_walk(Unwrap(payload)), 0)


\* =========================================================================
\* SpecTree: one of the four tree-flattening upserts, called on a store that
\* holds a scout, a rank and the definitions of all requirements but the one
\* of the largest id, and called again with the same arguments.
\* =========================================================================
TreeOps == { "upsert_requirements", "upsert_mb_requirements",
             "store_youth_rank_requirements", "store_youth_mb_requirements" }

\* The requirements rows left by upsert_requirements(conn, 1, [{"id": i}, ...]).
FlatDefinitions(ids) == { [id |-> i, rank_id |-> 1, parent_requirement_id |-> NULL] : i \in ids }

InitTree ==
    /\ \E f \in Forests(NodeLabels) :
          call = [op |-> "none", user_id |-> "U1", rank_id |-> 1, mb_api_id |-> 10,
                  mb_version_id |-> "v1", tree |-> f]
    /\ ranks = { [id |-> 1, level |-> 1, program_id |-> 2, active |-> 1] }
    /\ scouts = { [user_id |-> "U1", current_rank_id |-> NULL, birthdate |-> NULL] }
    /\ requirements = FlatDefinitions(1..(MaxReqId - 1))
    /\ mb_requirements = {}
    /\ scout_advancements = {}
    /\ scout_requirement_completions = {}
    /\ scout_mb_requirement_completions = {}
    /\ sqlite_sequence = NoRowsYet
    /\ merit_badges = Seeded.merit_badges /\ scout_merit_badges = {}
    /\ scout_leadership = {}
    /\ NoSync
    /\ pc = "ready"
    /\ ret = [count |-> 0]
    /\ runs = 0

\* A call returns (conn.commit() has run), or raises sqlite3.IntegrityError:
\* no caller catches it, the process ends and the open transaction is rolled
\* back, which leaves the tables as they were before the call.
CallUpsertRequirements ==
    /\ pc # "raised" /\ runs < MaxRuns /\ call.op \in { "none", "upsert_requirements" }
    /\ \E payload \in Wrappings(call.tree) :
       LET r == upsert_requirements(ranks, requirements, call.rank_id, payload)
           IN  /\ pc' = IF r.raised THEN "raised" ELSE "returned"
               /\ requirements' = IF r.raised THEN requirements ELSE r.requirements
               /\ ret' = IF r.raised THEN ret ELSE [count |-> r.count]
    /\ runs' = runs + 1
    /\ call' = [call EXCEPT !.op = "upsert_requirements"]
    /\ UNCHANGED <<badgeTables, syncVars, ranks, mb_requirements, scouts, scout_advancements,
                   scout_requirement_completions, scout_mb_requirement_completions,
                   sqlite_sequence>>

CallUpsertMbRequirements ==
    /\ pc # "raised" /\ runs < MaxRuns /\ call.op \in { "none", "upsert_mb_requirements" }
    /\ \E payload \in Wrappings(call.tree) :
       LET r == upsert_mb_requirements(mb_requirements, call.mb_api_id, call.mb_version_id,
                                           payload)
           IN  /\ pc' = "returned"
               /\ mb_requirements' = r.mb_requirements
               /\ ret' = [count |-> r.count]
    /\ runs' = runs + 1
    /\ call' = [call EXCEPT !.op = "upsert_mb_requirements"]
    /\ UNCHANGED <<badgeTables, syncVars, ranks, requirements, scouts, scout_advancements,
                   scout_requirement_completions, scout_mb_requirement_completions,
                   sqlite_sequence>>

CallStoreYouthRankRequirements ==
    /\ pc # "raised" /\ runs < MaxRuns /\ call.op \in { "none", "store_youth_rank_requirements" }
    /\ \E payload \in Wrappings(call.tree) :
       LET r == store_youth_rank_requirements(
                        scouts, ranks, requirements, scout_requirement_completions,
                        sqlite_sequence.scout_requirement_completions,
                        call.user_id, call.rank_id, payload)
           IN  /\ pc' = IF r.raised THEN "raised" ELSE "returned"
               /\ scout_requirement_completions' =
                     IF r.raised THEN scout_requirement_completions ELSE r.completions
               /\ sqlite_sequence' =
                     IF r.raised THEN sqlite_sequence
                     ELSE [sqlite_sequence EXCEPT !.scout_requirement_completions = r.seq]
               /\ ret' = IF r.raised THEN ret ELSE [count |-> r.count]
    /\ runs' = runs + 1
    /\ call' = [call EXCEPT !.op = "store_youth_rank_requirements"]
    /\ UNCHANGED <<badgeTables, syncVars, ranks, requirements, mb_requirements, scouts, scout_advancements,
                   scout_mb_requirement_completions>>

CallStoreYouthMbRequirements ==
    /\ pc # "raised" /\ runs < MaxRuns /\ call.op \in { "none", "store_youth_mb_requirements" }
    /\ \E payload \in Wrappings(call.tree) :
       LET r == store_youth_mb_requirements(
                        scouts, scout_mb_requirement_completions,
                        sqlite_sequence.scout_mb_requirement_completions,
                        call.user_id, call.mb_api_id, call.mb_version_id, payload)
           IN  /\ pc' = IF r.raised THEN "raised" ELSE "returned"
               /\ scout_mb_requirement_completions' =
                     IF r.raised THEN scout_mb_requirement_completions ELSE r.completions
               /\ sqlite_sequence' =
                     IF r.raised THEN sqlite_sequence
                     ELSE [sqlite_sequence EXCEPT !.scout_mb_requirement_completions = r.seq]
               /\ ret' = IF r.raised THEN ret ELSE [count |-> r.count]
    /\ runs' = runs + 1
    /\ call' = [call EXCEPT !.op = "store_youth_mb_requirements"]
    /\ UNCHANGED <<badgeTables, syncVars, ranks, requirements, mb_requirements, scouts, scout_advancements,
                   scout_requirement_completions>>

NextTree ==
    \/ CallUpsertRequirements
    \/ CallUpsertMbRequirements
    \/ CallStoreYouthRankRequirements
    \/ CallStoreYouthMbRequirements

SpecTree == InitTree /\ [][NextTree]_vars


\* ------------------------------------------------------------------------
\* Claims on the tree-flattening upserts (SpecTree).
\* ------------------------------------------------------------------------
\* The children of a node as the specification names them: the "requirements"
\* list, or the "children" list when "requirements" is absent or empty.
ListedChildren(node) ==
    IF Len(node.requirements) > 0 THEN node.requirements ELSE node.children

\* The positions of the nodes of a tree: <<i>> is the i-th top-level node,
\* p \o <<j>> the j-th listed child of the node at p.
RECURSIVE PositionsOf(_)
PositionsOf(forest) ==
    UNION { { <<i>> } \cup { <<i>> \o p : p \in PositionsOf(ListedChildren(forest[i])) } :
            i \in 1..Len(forest) }

RECURSIVE NodeAt(_, _)
NodeAt(forest, p) ==
    IF Len(p) = 1 THEN forest[p[1]]
    ELSE NodeAt(ListedChildren(forest[p[1]]), Tail(p))

ParentPosition(p) == SubSeq(p, 1, Len(p) - 1)

\* A node is stored when it and each of its ancestors carries an id.
StoredPositions(forest) ==
    { p \in PositionsOf(forest) :
        \A k \in 1..Len(p) : NodeAt(forest, SubSeq(p, 1, k)).id # 0 }

\* p comes before q in the depth-first order of the walk.
RECURSIVE Before(_, _)
Before(p, q) ==
    IF Len(p) = 0 THEN Len(q) > 0
    ELSE IF Len(q) = 0 THEN FALSE
    ELSE IF p[1] # q[1] THEN p[1] < q[1]
    ELSE Before(Tail(p), Tail(q))

\* The rows of the table the call writes, without the surrogate key of the two
\* completion tables.
WrittenRows ==
    CASE call.op = "upsert_requirements" -> requirements
      [] call.op = "upsert_mb_requirements" -> mb_requirements
      [] call.op = "store_youth_rank_requirements" ->
            { [scout_user_id |-> r.scout_user_id, requirement_id |-> r.requirement_id,
               rank_id |-> r.rank_id, completed |-> r.completed,
               date_completed |-> r.date_completed] : r \in scout_requirement_completions }
      [] OTHER ->
            { [scout_user_id |-> r.scout_user_id, mb_requirement_id |-> r.mb_requirement_id,
               mb_api_id |-> r.mb_api_id, mb_version_id |-> r.mb_version_id,
               completed |-> r.completed, date_completed |-> r.date_completed] :
              r \in scout_mb_requirement_completions }

\* C6: when one of the four tree-flattening upserts returns, its count is the
\* number of nodes of the tree that carry an id and have no id-less ancestor.
C6_CountIsStoredNodes ==
    pc = "returned" => ret.count = Cardinality(StoredPositions(call.tree))

\* C6 witness: a call has returned a count above zero for a tree in which an
\* id-less node has a listed child that carries an id.
C6_Witness ==
    /\ pc = "returned" /\ ret.count > 0
    /\ \E p \in PositionsOf(call.tree) :
          /\ NodeAt(call.tree, p).id = 0
          /\ \E j \in 1..Len(ListedChildren(NodeAt(call.tree, p))) :
                ListedChildren(NodeAt(call.tree, p))[j].id # 0

\* C7: after upsert_requirements or upsert_mb_requirements has stored a tree,
\* the row of every stored node (the last one written under its id) carries
\* the id of the node's immediate ancestor as parent_requirement_id, and NULL
\* when the node is a top-level one.
C7_ParentIsImmediateAncestor ==
    (pc = "returned" /\ call.op \in { "upsert_requirements", "upsert_mb_requirements" }) =>
        \A p \in StoredPositions(call.tree) :
            (\A q \in StoredPositions(call.tree) :
                NodeAt(call.tree, q).id = NodeAt(call.tree, p).id => ~Before(p, q))
            => \E r \in WrittenRows :
                  /\ r.id = NodeAt(call.tree, p).id
                  /\ r.parent_requirement_id =
                        IF Len(p) = 1 THEN NULL
                        ELSE NodeAt(call.tree, ParentPosition(p)).id

\* C7 witness: a definition tree with a chain of three stored nodes of
\* different ids has been stored.
C7_Witness ==
    /\ pc = "returned" /\ call.op \in { "upsert_requirements", "upsert_mb_requirements" }
    /\ \E p \in StoredPositions(call.tree) :
          /\ Len(p) = 3
          /\ NodeAt(call.tree, p).id # NodeAt(call.tree, SubSeq(p, 1, 1)).id
          /\ NodeAt(call.tree, p).id # NodeAt(call.tree, SubSeq(p, 1, 2)).id
          /\ NodeAt(call.tree, SubSeq(p, 1, 1)).id # NodeAt(call.tree, SubSeq(p, 1, 2)).id

\* C8 as claimed: a repeated call returns the same count and leaves every row
\* of every table with the values it had after the call before, the surrogate
\* key included.
C8_RerunLeavesRowsIdentical ==
    [][(pc = "returned" /\ pc' = "returned") =>
          /\ ret'.count = ret.count
          /\ requirements' = requirements
          /\ mb_requirements' = mb_requirements
          /\ scout_requirement_completions' = scout_requirement_completions
          /\ scout_mb_requirement_completions' = scout_mb_requirement_completions]_vars

\* C8 amended: a repeated call returns the same count and leaves the same
\* number of rows with the same values in every column but the AUTOINCREMENT
\* surrogate key id of the two completion tables.
C8_RerunLeavesDataIdentical ==
    [][(pc = "returned" /\ pc' = "returned") =>
          /\ ret'.count = ret.count
          /\ WrittenRows' = WrittenRows
          /\ Cardinality(requirements') = Cardinality(requirements)
          /\ Cardinality(mb_requirements') = Cardinality(mb_requirements)
          /\ Cardinality(scout_requirement_completions')
                = Cardinality(scout_requirement_completions)
          /\ Cardinality(scout_mb_requirement_completions')
                = Cardinality(scout_mb_requirement_completions)]_vars

\* C8 witness: a completion upsert has run twice on a tree with a stored node.
C8_Witness ==
    /\ pc = "returned" /\ runs = 2 /\ ret.count > 0
    /\ call.op \in { "store_youth_rank_requirements", "store_youth_mb_requirements" }


\* =========================================================================
\* Ranks: upsert_ranks and the scout-rank normalizer store_youth_ranks.
\* =========================================================================
\* Rank ids of a ranks response range over 0..MaxRankId (0: no id).
MaxRankId == 2
\* The largest number of rank entries in one ranks response.
MaxRankEntries == 2

\* programId of Scouts BSA.
SCOUTS_BSA_PROGRAM_ID == 2
\* The programs of a ranks response: Scouts BSA and one other program.
ProgramIds == { SCOUTS_BSA_PROGRAM_ID, SCOUTS_BSA_PROGRAM_ID + 1 }

\* ranks_data is a list, or a dict holding the list under "value" or "ranks".
RankWrappings(l) ==
    { [kind |-> "list", items |-> l, has_value |-> FALSE, value |-> <<>>, ranks |-> <<>>],
      [kind |-> "dict", items |-> <<>>, has_value |-> TRUE, value |-> l, ranks |-> <<>>],
      [kind |-> "dict", items |-> <<>>, has_value |-> FALSE, value |-> <<>>, ranks |-> l] }

UnwrapRanks(payload) ==
    IF payload.kind = "list" THEN payload.items
    ELSE IF payload.has_value THEN payload.value ELSE payload.ranks

\* The value of a rank's "active" field in the JSON: missing, null, a
\* boolean, or a string given as its characters.
Absent == [kind |-> "absent", truth |-> FALSE, chars |-> <<>>]
JsonNull == [kind |-> "null", truth |-> FALSE, chars |-> <<>>]
JsonBool(b) == [kind |-> "bool", truth |-> b, chars |-> <<>>]
JsonStr(chars) == [kind |-> "str", truth |-> FALSE, chars |-> chars]

\* rank.get("active", "True")
GetActive(rank) ==
    IF rank.active.kind = "absent" THEN JsonStr(<<"T", "r", "u", "e">>) ELSE rank.active

\* str(v)
PyStr(v) ==
    IF v.kind = "str" THEN v.chars
    ELSE IF v.kind = "bool"
         THEN (IF v.truth THEN <<"T", "r", "u", "e">> ELSE <<"F", "a", "l", "s", "e">>)
    ELSE <<"N", "o", "n", "e">>

UpperCase ==
    <<"A", "B", "C", "D", "E", "F", "G", "H", "I", "J", "K", "L", "M",
      "N", "O", "P", "Q", "R", "S", "T", "U", "V", "W", "X", "Y", "Z">>
LowerCase ==
    <<"a", "b", "c", "d", "e", "f", "g", "h", "i", "j", "k", "l", "m",
      "n", "o", "p", "q", "r", "s", "t", "u", "v", "w", "x", "y", "z">>

\* str.lower() on one character and on a string.
LowerChar_identity(c) == c

LowerChar(c) ==
    IF \E i \in 1..Len(UpperCase) : UpperCase[i] = c
    THEN LowerCase[CHOOSE i \in 1..Len(UpperCase) : UpperCase[i] = c]
    ELSE c

Lower(chars) == [i \in 1..Len(chars) |-> LowerChar(chars[i])]

\* 1 if str(rank.get("active", "True")).lower() == "true" else 0
ActiveColumn(rank) ==
    IF Lower(PyStr(GetActive(rank))) = <<"t", "r", "u", "e">> THEN 1 ELSE 0

RECURSIVE ExecRanks(_, _, _)
ExecRanks(ranksTbl, rankList, count) ==
    IF rankList = <<>> THEN [count |-> count, ranks |-> ranksTbl]
    ELSE LET rank == Head(rankList)
             row == [id |-> rank.id, level |-> rank.level, program_id |-> rank.programId,
                     active |-> ActiveColumn(rank)]
         IN  ExecRanks(ReplaceById(ranksTbl, row), Tail(rankList), count + 1)

upsert_ranks(ranksTbl, payload) == ExecRanks(ranksTbl, UnwrapRanks(payload), 0)

\* The (program, rank) pairs of a ranks response in the order of the two
\* nested loops.
RECURSIVE ProgramRanks(_)
ProgramRanks(programs) ==
    IF programs = <<>> THEN <<>>
    ELSE LET prog == Head(programs)
         IN  [i \in 1..Len(prog.ranks) |-> [prog_id |-> prog.programId, rank |-> prog.ranks[i]]]
             \o ProgramRanks(Tail(programs))

\* INSERT OR IGNORE INTO ranks: a rank not yet stored gets a placeholder row
\* whose level is its id.
InsertOrIgnoreRank_replace(ranksTbl, rank_id, prog_id) ==
    ReplaceById(ranksTbl, [id |-> rank_id, level |-> rank_id, program_id |-> prog_id,
                           active |-> 1])

InsertOrIgnoreRank(ranksTbl, rank_id, prog_id) ==
    IF rank_id \in Ids(ranksTbl) THEN ranksTbl
    ELSE ranksTbl \cup { [id |-> rank_id, level |-> rank_id, program_id |-> prog_id,
                           active |-> 1] }

\* INSERT OR REPLACE INTO scout_advancements under
\* UNIQUE(scout_user_id, advancement_type, advancement_id).
ReplaceAdvancement_per_scout(tbl, row) ==
    { r \in tbl : r.scout_user_id # row.scout_user_id } \cup { row }

ReplaceAdvancement(tbl, row) ==
    { r \in tbl : ~ ( /\ r.scout_user_id = row.scout_user_id
                      /\ r.advancement_type = row.advancement_type
                      /\ r.advancement_id = row.advancement_id ) } \cup { row }

\* Whether a rank entry takes part in the scout's current rank.
TracksCurrentRank_any_program(prog_id, date_earned) == date_earned # 0

TracksCurrentRank(prog_id, date_earned) ==
    date_earned # 0 /\ prog_id = SCOUTS_BSA_PROGRAM_ID

\* The loop body of store_youth_ranks over the remaining entries; s holds
\* the tables written so far, the AUTOINCREMENT counter, total and
\* max_bsa_rank_id.
RECURSIVE ExecYouthRanks(_, _, _, _)
ExecYouthRanks(scoutsTbl, user_id, entries, s) ==
    IF entries = <<>> \/ s.raised THEN s
    ELSE LET prog_id == Head(entries).prog_id
             rank    == Head(entries).rank
             rank_id == rank.id
             date_earned == rank.dateEarned
             status  == IF date_earned # 0 THEN "completed" ELSE "in_progress"
             row     == [id |-> s.seq + 1, scout_user_id |-> user_id,
                         advancement_type |-> "rank", advancement_id |-> rank_id,
                         status |-> status,
                         date_completed |-> IF date_earned # 0 THEN date_earned ELSE NULL]
         IN  IF rank_id = 0 THEN ExecYouthRanks(scoutsTbl, user_id, Tail(entries), s)
             ELSE IF user_id \notin { sc.user_id : sc \in scoutsTbl }
                  THEN [s EXCEPT !.raised = TRUE]
             ELSE ExecYouthRanks(scoutsTbl, user_id, Tail(entries),
                      [raised |-> FALSE,
                       total |-> s.total + 1,
                       ranks |-> InsertOrIgnoreRank(s.ranks, rank_id, prog_id),
                       scout_advancements |-> ReplaceAdvancement(s.scout_advancements, row),
                       seq |-> s.seq + 1,
                       max_bsa_rank_id |->
                           IF TracksCurrentRank(prog_id, date_earned)
                              /\ rank_id > s.max_bsa_rank_id
                           THEN rank_id ELSE s.max_bsa_rank_id])

\* UPDATE scouts SET current_rank_id = ? WHERE user_id = ?
UpdateCurrentRank(scoutsTbl, user_id, rank_id) ==
    { IF sc.user_id = user_id THEN [sc EXCEPT !.current_rank_id = rank_id] ELSE sc :
        sc \in scoutsTbl }

store_youth_ranks(scoutsTbl, ranksTbl, advTbl, seq, user_id, ranks_response) ==
    LET s == ExecYouthRanks(scoutsTbl, user_id, ProgramRanks(ranks_response.program),
                 [raised |-> FALSE, total |-> 0, ranks |-> ranksTbl,
                  scout_advancements |-> advTbl, seq |-> seq, max_bsa_rank_id |-> 0])
    IN  [raised |-> s.raised, total |-> s.total, ranks |-> s.ranks,
         scout_advancements |-> s.scout_advancements, seq |-> s.seq,
         scouts |-> IF s.max_bsa_rank_id # 0
                    THEN UpdateCurrentRank(scoutsTbl, user_id, s.max_bsa_rank_id)
                    ELSE scoutsTbl]

\* ------------------------------------------------------ ranks responses
\* A rank entry: its id (0: none), dateEarned and dateCompleted (0: none).
RankEntryLabels ==
    { [id |-> i, dateEarned |-> d[1], dateCompleted |-> d[2]] :
        i \in 0..MaxRankId, d \in { <<0, 0>>, <<1, 0>>, <<0, 1>> } }

RECURSIVE RankListsOfLen(_)
RankListsOfLen(n) ==
    IF n = 0 THEN { <<>> }
    ELSE { <<e>> \o l : e \in RankEntryLabels, l \in RankListsOfLen(n - 1) }

\* The program lists with n rank entries in all.
RECURSIVE ProgramsOfSize(_)
ProgramsOfSize(n) ==
    IF n = 0 THEN { <<>> }
    ELSE UNION { { <<[programId |-> p, ranks |-> r]>> \o rest :
                     p \in ProgramIds, r \in RankListsOfLen(k),
                     rest \in ProgramsOfSize(n - k) } : k \in 1..n }

RanksResponses ==
    { [program |-> ps] : ps \in UNION { ProgramsOfSize(n) : n \in 0..MaxRankEntries } }

\* What sync-ranks stored before: nothing, the ranks 1..MaxRankId of Scouts
\* BSA with levels rising with the id, or with levels falling with the id.
RankCatalogs ==
    { <<>>,
      [i \in 1..MaxRankId |-> [id |-> i, level |-> i, programId |-> SCOUTS_BSA_PROGRAM_ID,
                               active |-> Absent]],
      [i \in 1..MaxRankId |-> [id |-> i, level |-> MaxRankId + 1 - i,
                               programId |-> SCOUTS_BSA_PROGRAM_ID,
                               active |-> JsonStr(<<"F", "a", "l", "s", "e">>)]] }

\* What an earlier sync of scout U1 got: no ranks, rank 1 earned, or rank
\* MaxRankId earned.
PriorResponses ==
    { [program |-> <<>>] } \cup
    { [program |-> << [programId |-> SCOUTS_BSA_PROGRAM_ID,
                       ranks |-> << [id |-> i, dateEarned |-> 1, dateCompleted |-> 0] >>] >>] :
        i \in { 1, MaxRankId } }

\* =========================================================================
\* SpecRanks: store_youth_ranks called for scout U1 on a store that holds
\* two scouts and was left by sync-ranks and an earlier sync of U1.
\* =========================================================================
InitRanks ==
    \E catalog \in RankCatalogs, prior \in PriorResponses :
      \E payload \in RankWrappings(catalog) :
        LET roster == { [user_id |-> u, current_rank_id |-> NULL, birthdate |-> NULL] :
                          u \in { "U1", "U2" } }
            r1 == upsert_ranks({}, payload)
            r2 == store_youth_ranks(roster, r1.ranks, {}, 0, "U1", prior)
        IN  /\ ranks = r2.ranks
            /\ scouts = r2.scouts
            /\ scout_advancements = r2.scout_advancements
            /\ sqlite_sequence = [NoRowsYet EXCEPT !.scout_advancements = r2.seq]
            /\ merit_badges = Seeded.merit_badges /\ scout_merit_badges = {}
            /\ scout_leadership = {}
            /\ NoSync
            /\ requirements = {}
            /\ mb_requirements = {}
            /\ scout_requirement_completions = {}
            /\ scout_mb_requirement_completions = {}
            /\ pc = "ready"
            /\ call = [op |-> "none"]
            /\ ret = [count |-> 0]
            /\ runs = 0

CallStoreYouthRanks ==
    /\ pc = "ready"
    /\ \E user_id \in { "U1" }, ranks_response \in RanksResponses :
         LET r == store_youth_ranks(scouts, ranks, scout_advancements,
                                    sqlite_sequence.scout_advancements, user_id,
                                    ranks_response)
         IN  /\ call' = [op |-> "store_youth_ranks", user_id |-> user_id,
                         ranks_response |-> ranks_response]
             /\ pc' = IF r.raised THEN "raised" ELSE "returned"
             /\ ranks' = IF r.raised THEN ranks ELSE r.ranks
             /\ scouts' = IF r.raised THEN scouts ELSE r.scouts
             /\ scout_advancements' =
                   IF r.raised THEN scout_advancements ELSE r.scout_advancements
             /\ sqlite_sequence' =
                   IF r.raised THEN sqlite_sequence
                   ELSE [sqlite_sequence EXCEPT !.scout_advancements = r.seq]
             /\ ret' = IF r.raised THEN ret ELSE [count |-> r.total]
    /\ runs' = runs + 1
    /\ UNCHANGED <<badgeTables, syncVars, requirements, mb_requirements, scout_requirement_completions,
                   scout_mb_requirement_completions>>

NextRanks == CallStoreYouthRanks

SpecRanks == InitRanks /\ [][NextRanks]_vars

\* ----------------------------------------------------- claims on SpecRanks
\* The stored current_rank_id of a scout (NULL: none).
CurrentRankOf(user_id) ==
    LET rows == { sc \in scouts : sc.user_id = user_id }
    IN  IF rows = {} THEN NULL ELSE (CHOOSE sc \in rows : TRUE).current_rank_id

\* The stored level of a rank.
LevelOf(rank_id) == (CHOOSE r \in ranks : r.id = rank_id).level

\* The ids of the program-2 rank entries of a response that carry an id and
\* an earned date.
EarnedBsaRanks(ranks_response) ==
    LET entries == ProgramRanks(ranks_response.program)
    IN  { entries[i].rank.id : i \in { j \in 1..Len(entries) :
            /\ entries[j].prog_id = SCOUTS_BSA_PROGRAM_ID
            /\ entries[j].rank.id # 0
            /\ entries[j].rank.dateEarned # 0 } }

\* C9: after store_youth_ranks has processed a response in which at least
\* one program-2 rank has a completion date, the scout's current_rank_id is
\* the id of a completed program-2 rank of that response whose stored level
\* is the highest among them; the order is by level, not by id.
C9_CurrentRankIsHighestLevel ==
    ( /\ pc = "returned" /\ call.op = "store_youth_ranks"
      /\ EarnedBsaRanks(call.ranks_response) # {} )
    => LET earned == EarnedBsaRanks(call.ranks_response)
           cur    == CurrentRankOf(call.user_id)
       IN  /\ cur \in earned
           /\ \A other \in earned : LevelOf(other) <= LevelOf(cur)

\* C10: a call of store_youth_ranks whose response holds no program-2 rank
\* entry with an id and an earned date leaves the current_rank_id of every
\* scout as it was.
C10_NoBsaRankKeepsCurrentRank ==
    [][ ( /\ call'.op = "store_youth_ranks" /\ runs' = runs + 1
          /\ EarnedBsaRanks(call'.ranks_response) = {} )
        => scouts' = scouts ]_vars

\* A scout who holds a current rank has been synced with a response whose
\* only earned rank is of another program.
C10_Witness ==
    /\ pc = "returned" /\ call.op = "store_youth_ranks"
    /\ EarnedBsaRanks(call.ranks_response) = {}
    /\ \E i \in 1..Len(ProgramRanks(call.ranks_response.program)) :
         LET e == ProgramRanks(call.ranks_response.program)[i]
         IN  e.prog_id # SCOUTS_BSA_PROGRAM_ID /\ e.rank.id # 0 /\ e.rank.dateEarned # 0
    /\ CurrentRankOf(call.user_id) # NULL

\* ------------------------------------------- placeholder ranks (SpecRanks)
\* The rank ids of the entries of a response that carry an id.
ResponseRankIds(ranks_response) ==
    LET entries == ProgramRanks(ranks_response.program)
    IN  { entries[i].rank.id : i \in 1..Len(entries) } \ { 0 }

\* C16: a call of store_youth_ranks for an existing scout leaves one
\* advancement row for every rank id of the response, also for ids unknown
\* to the ranks table; every rank row that existed is unchanged, every new
\* rank row is a placeholder for an unknown id of the response; afterwards
\* every rank advancement row and every non-null current_rank_id refers to
\* an existing rank.
C16_PlaceholderRanks ==
    [][ ( call'.op = "store_youth_ranks" /\ pc' = "returned" /\ runs' = runs + 1 )
        => /\ \A id \in ResponseRankIds(call'.ranks_response) :
                /\ Cardinality({ adv \in scout_advancements' :
                                   /\ adv.scout_user_id = call'.user_id
                                   /\ adv.advancement_type = "rank"
                                   /\ adv.advancement_id = id }) = 1
                /\ id \in Ids(ranks')
           /\ ranks \subseteq ranks'
           /\ \A r \in ranks' \ ranks :
                /\ r.id \in ResponseRankIds(call'.ranks_response) \ Ids(ranks)
                /\ r.level = r.id /\ r.active = 1
           /\ \A adv \in scout_advancements' :
                adv.advancement_type = "rank" => adv.advancement_id \in Ids(ranks')
           /\ \A sc \in scouts' :
                sc.current_rank_id # NULL => sc.current_rank_id \in Ids(ranks')
      ]_vars

\* On a store without rank catalog the scout's response named rank
\* MaxRankId as earned: the rank has a placeholder row, the scout an
\* advancement row and the rank as current rank.
C16_Witness ==
    /\ pc = "returned" /\ call.op = "store_youth_ranks"
    /\ ResponseRankIds(call.ranks_response) = { MaxRankId }
    /\ ranks = { [id |-> MaxRankId, level |-> MaxRankId,
                  program_id |-> SCOUTS_BSA_PROGRAM_ID, active |-> 1] }
    /\ \E adv \in scout_advancements :
         adv.scout_user_id = call.user_id /\ adv.advancement_id = MaxRankId
    /\ CurrentRankOf(call.user_id) = MaxRankId


\* =========================================================================
\* Merit badges, leadership and the scout row.
\* =========================================================================
\* INSERT OR REPLACE INTO scout_merit_badges under
\* UNIQUE(scout_user_id, merit_badge_name).
ReplaceScoutMeritBadge(tbl, row) ==
    { r \in tbl : ~ ( /\ r.scout_user_id = row.scout_user_id
                      /\ r.merit_badge_name = row.merit_badge_name ) } \cup { row }

\* INSERT INTO merit_badges ... ON CONFLICT(name) DO UPDATE SET
\* is_eagle_required = excluded.is_eagle_required
UpsertMeritBadge_insert_or_ignore(s, name, is_eagle) ==
    IF name \in { b.name : b \in s.merit_badges } THEN s
    ELSE [s EXCEPT !.merit_badges =
             s.merit_badges \cup { [id |-> s.seq_mb + 1, name |-> name,
                                    is_eagle_required |-> is_eagle] },
           !.seq_mb = s.seq_mb + 1]

UpsertMeritBadge(s, name, is_eagle) ==
    IF name \in { b.name : b \in s.merit_badges }
    THEN [s EXCEPT !.merit_badges =
             { IF b.name = name THEN [b EXCEPT !.is_eagle_required = is_eagle] ELSE b :
                 b \in s.merit_badges }]
    ELSE [s EXCEPT !.merit_badges =
             s.merit_badges \cup { [id |-> s.seq_mb + 1, name |-> name,
                                    is_eagle_required |-> is_eagle] },
           !.seq_mb = s.seq_mb + 1]

\* item.get("dateCompleted") or item.get("dateEarned"); 0 stands for a
\* missing or empty date.
CompletionDate_ignoring_date_earned(dateCompleted, dateEarned) == dateCompleted

CompletionDate(dateCompleted, dateEarned) ==
    IF dateCompleted # 0 THEN dateCompleted ELSE dateEarned

\* The loop of store_youth_merit_badges over the remaining items.
RECURSIVE ExecMeritBadges(_, _, _, _)
ExecMeritBadges(scoutsTbl, user_id, items, s) ==
    IF items = <<>> \/ s.raised THEN s
    ELSE LET item == Head(items)
             name == IF item.name # "" THEN item.name ELSE item.short
             date_completed == CompletionDate(item.dateCompleted, item.dateEarned)
             status == IF date_completed # 0 THEN "completed" ELSE "in_progress"
             is_eagle == IF item.isEagleRequired \/ item.eagleRequired THEN 1 ELSE 0
             row == [id |-> s.seq_smb + 1, scout_user_id |-> user_id,
                     merit_badge_name |-> name, status |-> status,
                     date_completed |-> IF date_completed # 0 THEN date_completed ELSE NULL,
                     date_started |-> IF item.dateStarted # 0 THEN item.dateStarted ELSE NULL]
         IN  IF name = "" THEN ExecMeritBadges(scoutsTbl, user_id, Tail(items), s)
             ELSE IF user_id \notin { sc.user_id : sc \in scoutsTbl }
                  THEN [s EXCEPT !.raised = TRUE]
             ELSE ExecMeritBadges(scoutsTbl, user_id, Tail(items),
                      UpsertMeritBadge(
                          [s EXCEPT !.earned = s.earned + (IF date_completed # 0 THEN 1 ELSE 0),
                                    !.scout_merit_badges =
                                        ReplaceScoutMeritBadge(s.scout_merit_badges, row),
                                    !.seq_smb = s.seq_smb + 1],
                          name, is_eagle))

\* mb_response is <<kind, items>>: a list, or something else that is taken
\* for an empty list.
store_youth_merit_badges(scoutsTbl, mbTbl, smbTbl, seq_mb, seq_smb, user_id, mb_response) ==
    LET items == IF mb_response.kind = "list" THEN mb_response.items ELSE <<>>
        s == ExecMeritBadges(scoutsTbl, user_id, items,
                 [raised |-> FALSE, earned |-> 0, merit_badges |-> mbTbl,
                  scout_merit_badges |-> smbTbl, seq_mb |-> seq_mb, seq_smb |-> seq_smb])
    IN  [raised |-> s.raised, earned |-> s.earned, total |-> Len(items),
         merit_badges |-> s.merit_badges, scout_merit_badges |-> s.scout_merit_badges,
         seq_mb |-> s.seq_mb, seq_smb |-> s.seq_smb]

\* INSERT OR REPLACE INTO scout_leadership: the table has no UNIQUE
\* constraint, and the new id conflicts with no row, so the row is added.
InsertLeadership_unique_position(tbl, row) ==
    { r \in tbl : ~ ( /\ r.scout_user_id = row.scout_user_id /\ r.position = row.position
                      /\ r.start_date = row.start_date ) } \cup { row }

InsertLeadership(tbl, row) == tbl \cup { row }

\* The loop of store_leadership.
RECURSIVE ExecLeadership(_, _, _, _)
ExecLeadership(scoutsTbl, user_id, positions, s) ==
    IF positions = <<>> \/ s.raised THEN s
    ELSE LET pos == Head(positions)
             position_name == IF pos.positionTitle # "" THEN pos.positionTitle ELSE "Unknown"
             row == [id |-> s.seq + 1, scout_user_id |-> user_id, position |-> position_name,
                     start_date |-> IF pos.dateStarted # 0 THEN pos.dateStarted ELSE NULL]
         IN  IF user_id \notin { sc.user_id : sc \in scoutsTbl }
             THEN [s EXCEPT !.raised = TRUE]
             ELSE ExecLeadership(scoutsTbl, user_id, Tail(positions),
                      [raised |-> FALSE, count |-> s.count + 1,
                       scout_leadership |-> InsertLeadership(s.scout_leadership, row),
                       seq |-> s.seq + 1])

\* positions is a list, or a dict holding the list under "value" or under
\* "positions".
store_leadership(scoutsTbl, leadTbl, seq, user_id, positions) ==
    LET list == IF positions.kind = "list" THEN positions.items
                ELSE IF positions.has_value THEN positions.value ELSE positions.positions
    IN  ExecLeadership(scoutsTbl, user_id, list,
            [raised |-> FALSE, count |-> 0, scout_leadership |-> leadTbl, seq |-> seq])

\* upsert_scout(conn, user_id, birthdate=birthdate): the other columns are
\* passed as None and keep their values (COALESCE).
upsert_scout(scoutsTbl, user_id, birthdate) ==
    IF user_id \in { sc.user_id : sc \in scoutsTbl }
    THEN { IF sc.user_id = user_id /\ birthdate # NULL
           THEN [sc EXCEPT !.birthdate = birthdate] ELSE sc : sc \in scoutsTbl }
    ELSE scoutsTbl \cup { [user_id |-> user_id, current_rank_id |-> NULL,
                           birthdate |-> birthdate] }


\* =========================================================================
\* The remote API as the two orchestrators see it.
\* =========================================================================
\* The number of scouts of the largest roster.
MaxScouts == 2
\* The largest number of API calls that fail in one run.
MaxApiErrors == 2

\* SELECT user_id FROM scouts: the scouts in the order they were added.
ScoutOrder == [i \in 1..MaxScouts |-> "U" \o ToString(i)]

\* The HTTP statuses a failing call carries in ScoutingAPIError.status_code.
ErrorStatuses == { 401, 403, 500 }

\* A requirement node with its sub-requirements under "requirements".
Req(id, date, kids) == [id |-> id, date |-> date, requirements |-> kids, children |-> <<>>]

\* get_rank_requirements(rank_id): rank r has requirement 2r - 1 and, below
\* it, requirement 2r.
RankDefinition(rank_id) ==
    [kind |-> "dict", items |-> <<>>, value |-> <<>>,
     requirements |-> << Req(2 * rank_id - 1, 0, << Req(2 * rank_id, 0, <<>>) >>) >>]

\* get_youth_rank_requirements(uid, rank_id): the scout has completed the top
\* requirement of the rank; a stray tree also names a requirement that no
\* rank defines.
RankCompletions(rank_id, stray) ==
    [kind |-> "list", requirements |-> <<>>, value |-> <<>>,
     items |-> << Req(2 * rank_id - 1, 1, << Req(2 * rank_id, 0, <<>>) >>) >>
               \o (IF stray THEN << Req(2 * MaxRankId + 1, 1, <<>>) >> ELSE <<>>)]

\* get_youth_ranks(uid) of a scout: rank 1 earned and rank 2 in progress;
\* ranks 1 and 2 in progress; rank 1 with dateCompleted only and rank 2 in
\* progress in another program.
SyncRanksResponses ==
    { [program |-> << [programId |-> SCOUTS_BSA_PROGRAM_ID,
                       ranks |-> << [id |-> 1, dateEarned |-> 1, dateCompleted |-> 1],
                                    [id |-> 2, dateEarned |-> 0, dateCompleted |-> 0] >>] >>],
      [program |-> << [programId |-> SCOUTS_BSA_PROGRAM_ID,
                       ranks |-> << [id |-> 1, dateEarned |-> 0, dateCompleted |-> 0],
                                    [id |-> 2, dateEarned |-> 0, dateCompleted |-> 0] >>] >>],
      [program |-> << [programId |-> SCOUTS_BSA_PROGRAM_ID,
                       ranks |-> << [id |-> 1, dateEarned |-> 0, dateCompleted |-> 1] >>],
                      [programId |-> SCOUTS_BSA_PROGRAM_ID + 1,
                       ranks |-> << [id |-> 2, dateEarned |-> 0, dateCompleted |-> 0] >>] >>] }

\* get_youth_merit_badges(uid): Camping (an Eagle badge) in progress and Art
\* completed.
Badge(name, id, completed) ==
    [name |-> name, short |-> "", id |-> id, versionId |-> "v1",
     dateCompleted |-> completed, dateEarned |-> 0, dateStarted |-> 1,
     isEagleRequired |-> name \in { EAGLE_REQUIRED_MERIT_BADGES[i] :
                                      i \in 1..Len(EAGLE_REQUIRED_MERIT_BADGES) },
     eagleRequired |-> FALSE]

MeritBadges == [kind |-> "list", items |-> << Badge("Camping", 10, 0), Badge("Art", 11, 1) >>]

\* get_mb_requirements(mb_id): a dict with the version and the tree.
MbDefinition(mb_id) ==
    [kind |-> "dict", items |-> <<>>, value |-> <<>>, versionId |-> "v1",
     requirements |-> << Req(1, 0, << Req(2, 0, <<>>) >>) >>]

\* get_youth_mb_requirements(uid, mb_id)
MbCompletions(mb_id) ==
    [kind |-> "list", requirements |-> <<>>, value |-> <<>>,
     items |-> << Req(1, 1, << Req(2, 0, <<>>) >>) >>]

\* get_leadership_history(uid)
Leadership ==
    [kind |-> "list", has_value |-> FALSE, value |-> <<>>, positions |-> <<>>,
     items |-> << [positionTitle |-> "Patrol Leader", dateStarted |-> 1] >>]

\* get_person_profile(uid): the first scout's profile has a birthdate.
Profile(uid) ==
    [dateOfBirth |-> IF uid = ScoutOrder[1] THEN 1 ELSE 0, birthDate |-> 0, dob |-> 0,
     profile |-> [dateOfBirth |-> 0]]

\* The versionId fields of the API: that of the requirement definitions of a
\* badge, and that of the badge entries in the merit-badge response of the
\* first scout and of the other scouts ("": the field is missing).
Versions(defn, first, others) ==
    [defn |-> defn,
     badge |-> [u \in { ScoutOrder[i] : i \in 1..MaxScouts } |->
                   IF u = ScoutOrder[1] THEN first ELSE others]]

\* What the API holds in one run: the ranks response of every scout (the
\* scouts after the first have rank 1 earned and rank 2 in progress), the
\* (scout, rank) pairs whose completion tree is stray, and the versionId
\* fields.
World(first, stray) ==
    [ranks |-> [u \in { ScoutOrder[i] : i \in 1..MaxScouts } |->
                   IF u = ScoutOrder[1] THEN first
                   ELSE CHOOSE r \in SyncRanksResponses : r.program[1].ranks[1].dateEarned = 1],
     stray |-> stray,
     versions |-> Versions("v1", "v1", "v1")]

Worlds ==
    { World(first, {}) : first \in SyncRanksResponses } \cup
    { World(first, { <<ScoutOrder[1], 1>> }) :
        first \in { r \in SyncRanksResponses :
                      /\ r.program[1].ranks[1].dateEarned = 0
                      /\ r.program[1].ranks[1].dateCompleted = 0 } } \cup
    { [World(CHOOSE r \in SyncRanksResponses : r.program[1].ranks[1].dateEarned = 1, {})
          EXCEPT !.versions = v] :
        v \in { Versions("", "", "v2"), Versions("", "v1", "v2"),
                Versions("v2", "v1", "v1") } }

\* get_youth_merit_badges(uid) and get_mb_requirements(mb_id) in a world.
YouthMeritBadges(w, uid) ==
    [MeritBadges EXCEPT !.items =
        [i \in 1..Len(MeritBadges.items) |->
            [MeritBadges.items[i] EXCEPT !.versionId = w.versions.badge[uid]]]]

MbDefinitionIn(w, mb_id) == [MbDefinition(mb_id) EXCEPT !.versionId = w.versions.defn]

\* =========================================================================
\* SpecSync: cli.cmd_sync_scouts and the scout loop of native_sync.main, one
\* step per API call with the normalizer that stores its response.
\* =========================================================================
Db == [ranks |-> ranks, requirements |-> requirements, mb_requirements |-> mb_requirements,
       scouts |-> scouts, scout_advancements |-> scout_advancements,
       scout_requirement_completions |-> scout_requirement_completions,
       scout_mb_requirement_completions |-> scout_mb_requirement_completions,
       sqlite_sequence |-> sqlite_sequence, merit_badges |-> merit_badges,
       scout_merit_badges |-> scout_merit_badges, scout_leadership |-> scout_leadership]

SetDb(d) ==
    /\ ranks' = d.ranks /\ requirements' = d.requirements
    /\ mb_requirements' = d.mb_requirements /\ scouts' = d.scouts
    /\ scout_advancements' = d.scout_advancements
    /\ scout_requirement_completions' = d.scout_requirement_completions
    /\ scout_mb_requirement_completions' = d.scout_mb_requirement_completions
    /\ sqlite_sequence' = d.sqlite_sequence /\ merit_badges' = d.merit_badges
    /\ scout_merit_badges' = d.scout_merit_badges /\ scout_leadership' = d.scout_leadership

\* The locals of the scout loop.
Locals == [ranks_data |-> ranks_data, mb_data |-> mb_data, req_count |-> req_count,
           rank_defn_cache |-> rank_defn_cache, mb_defn_cache |-> mb_defn_cache]

SetLocals(l) ==
    /\ ranks_data' = l.ranks_data /\ mb_data' = l.mb_data /\ req_count' = l.req_count
    /\ rank_defn_cache' = l.rank_defn_cache /\ mb_defn_cache' = l.mb_defn_cache

\* total = len(scouts)
Total == Cardinality(scouts)

\* One line or record of output: the kind, the step it speaks of, a number
\* (count, status code) and a second number (out of).
Token(kind, step, code, of) == [kind |-> kind, step |-> step, code |-> code, of |-> of]

\* _abort_if_unauthorized in the CLI; in native_sync the one check of
\* exc.status_code == 401, in the handler of the ranks fetch.
AbortOnUnauthorized_ranks_only(m, fn, status) == status = 401 /\ fn = "get_youth_ranks"

AbortOnUnauthorized_any_error(m, fn, status) == status # 200

AbortOnUnauthorized(m, fn, status) ==
    status = 401 /\ (m = "cli" \/ fn = "get_youth_ranks")

\* The steps whose handler prints the status of a failed call.
ReportedSteps(m) ==
    IF m = "cli" THEN { "ranks", "mbs", "lead", "dob" } ELSE { "ranks", "merit badges" }

StatusTokens(m, step, status) ==
    IF step \in ReportedSteps(m) THEN << Token("status", step, status, 0) >> ELSE <<>>

\* The green tokens of the CLI; native_sync prints nothing on success.
OkTokens(m, step, code, of) ==
    IF m = "cli" THEN << Token("ok", step, code, of) >> ELSE <<>>

\* The success signal: "Done - synced N" of the CLI, the step record
\* "Synced N" and the complete record of native_sync.
DoneTokens_without_complete(m, n) == << Token("done", "sync", n, 0) >>

DoneTokens(m, n) ==
    IF m = "cli" THEN << Token("done", "sync", n, 0) >>
    ELSE << Token("done", "sync", n, 0), Token("complete", "sync", 0, 0) >>

\* The ids of the ranks of program 2 that have an id and neither dateEarned
\* nor dateCompleted, in the order of the response.
InProgressRanks(ranks_response) ==
    LET entries == SelectSeq(ProgramRanks(ranks_response.program),
                       LAMBDA e : /\ e.prog_id = SCOUTS_BSA_PROGRAM_ID
                                  /\ e.rank.dateEarned = 0 /\ e.rank.dateCompleted = 0
                                  /\ e.rank.id # 0)
    IN  [i \in 1..Len(entries) |-> entries[i].rank.id]

\* The badges of a list response that have an id and neither dateCompleted
\* nor dateEarned.
InProgressBadges(mb_response) ==
    IF mb_response.kind = "list"
    THEN SelectSeq(mb_response.items,
             LAMBDA mb : mb.dateCompleted = 0 /\ mb.dateEarned = 0 /\ mb.id # 0)
    ELSE <<>>

\* The order of the phases of one scout.
Phases(m) ==
    IF m = "cli" THEN << "ranks", "rank_reqs", "mbs", "leadership", "profile", "mb_reqs" >>
    ELSE << "ranks", "rank_reqs", "mbs", "mb_reqs", "leadership", "profile" >>

PhaseIndex(m, phase) == CHOOSE k \in 1..Len(Phases(m)) : Phases(m)[k] = phase

\* Where a requirement loop stands with the list that is left: at the
\* definition fetch of its head unless the cache has it, else at its
\* completion fetch.
RankWork_ignoring_cache(list, l) == [pc |-> "rank_defn", pending |-> list]

RankWork(list, l) ==
    [pc |-> IF Head(list) \in l.rank_defn_cache THEN "rank_reqs" ELSE "rank_defn",
     pending |-> list]

MbWork(list, l) ==
    [pc |-> IF Head(list).id \in { c.mb_id : c \in l.mb_defn_cache } THEN "mb_reqs"
            ELSE "mb_defn",
     pending |-> list]

\* `if mb_data`: None and the empty list are falsy.
Truthy(data) ==
    data # <<>> /\ ~ (data[1].kind = "list" /\ data[1].items = <<>>)

\* `if not skip_reqs and ranks_data`, `if not skip_reqs and mb_data`
ReqsWanted_ignoring_skip(skip, has_data) == has_data

ReqsWanted(skip, has_data) == ~ skip /\ has_data

\* The first phase from the k-th on that has something to do, "end" when the
\* scout is finished.
RECURSIVE Enter(_, _, _, _)
Enter(m, k, skip, l) ==
    IF k > Len(Phases(m)) THEN [pc |-> "end", pending |-> <<>>]
    ELSE IF Phases(m)[k] = "rank_reqs"
         THEN LET list == IF ReqsWanted(skip, l.ranks_data # <<>>)
                          THEN InProgressRanks(l.ranks_data[1]) ELSE <<>>
              IN  IF list = <<>> THEN Enter(m, k + 1, skip, l) ELSE RankWork(list, l)
    ELSE IF Phases(m)[k] = "mb_reqs"
         THEN LET list == IF ReqsWanted(skip, Truthy(l.mb_data))
                          THEN InProgressBadges(l.mb_data[1]) ELSE <<>>
              IN  IF list = <<>> THEN Enter(m, k + 1, skip, l) ELSE MbWork(list, l)
    ELSE [pc |-> Phases(m)[k], pending |-> <<>>]


\* The database when the scout loop is reached: init_db has run, the roster
\* holds the first n scouts, sync-ranks (step 3 of native_sync.main) has
\* stored no rank or the ranks of a catalog, and no requirement definition is
\* stored yet (none was fetched, or every fetch failed).
InitSync ==
    \E m \in { "cli", "native" }, skip \in BOOLEAN, w \in Worlds, n \in 0..MaxScouts,
       catalog \in RankCatalogs :
          /\ mode = m /\ skip_reqs = skip /\ api = w
          /\ scouts = { [user_id |-> ScoutOrder[i], current_rank_id |-> NULL,
                         birthdate |-> NULL] : i \in 1..n }
          /\ ranks = upsert_ranks({}, [kind |-> "list", items |-> catalog]).ranks
          /\ merit_badges = Seeded.merit_badges
          /\ sqlite_sequence = NoRowsYet
          /\ requirements = {} /\ mb_requirements = {} /\ scout_advancements = {}
          /\ scout_requirement_completions = {} /\ scout_mb_requirement_completions = {}
          /\ scout_merit_badges = {} /\ scout_leadership = {}
          /\ scout_idx = 0 /\ ranks_data = <<>> /\ mb_data = <<>> /\ pending = <<>>
          /\ req_count = 0 /\ rank_defn_cache = {} /\ mb_defn_cache = {}
          /\ api_log = <<>> /\ api_status = 0 /\ api_errors = 0 /\ out = <<>>
          /\ rank_defn_calls = [r \in 1..MaxRankId |-> 0]
          /\ pc = "start" /\ call = [op |-> "none"] /\ ret = [count |-> 0] /\ runs = 0

\* The statuses the next API call may come back with.
ApiStatuses == { 200 } \cup (IF api_errors < MaxApiErrors THEN ErrorStatuses ELSE {})

\* The call is made: it joins the log of the calls for the scout in hand.
ApiCall(fn, uid, id, status, first) ==
    /\ api_log' = (IF first THEN <<>> ELSE api_log) \o << [fn |-> fn, uid |-> uid, id |-> id] >>
    /\ api_status' = status
    /\ api_errors' = api_errors + (IF status = 200 THEN 0 ELSE 1)
    /\ rank_defn_calls' = IF fn = "get_rank_requirements"
                          THEN [rank_defn_calls EXCEPT ![id] = @ + 1]
                          ELSE rank_defn_calls

\* The handler goes on: to the next call of the scout, to the next scout, or
\* past the loop to conn.close() and the success signal.
Continue(d, l, target, tokens) ==
    /\ SetDb(d) /\ SetLocals(l)
    /\ pending' = target.pending
    /\ IF target.pc # "end"
       THEN pc' = target.pc /\ scout_idx' = scout_idx /\ out' = tokens
       ELSE IF scout_idx < Total
            THEN pc' = "ranks" /\ scout_idx' = scout_idx + 1 /\ out' = tokens
            ELSE pc' = "done" /\ scout_idx' = scout_idx
                 /\ out' = tokens \o DoneTokens(mode, Total)

\* What a step comes to: "go" on with new tables and locals, "abort" on an
\* unauthorized call (conn.close(), sys.exit(1)), or "crash" on an exception
\* that no handler catches; the process then ends and the statements of the
\* open transaction are rolled back.
Go(d, l, target, tokens) ==
    [kind |-> "go", db |-> d, locals |-> l, target |-> target, tokens |-> tokens]

Stop_dropping_scout_rows(kind, step, status) ==
    [kind |-> kind,
     db |-> [Db EXCEPT !.scout_advancements =
                { a \in @ : a.scout_user_id # ScoutOrder[scout_idx] }],
     locals |-> Locals,
     target |-> [pc |-> "end", pending |-> <<>>],
     tokens |-> << Token(IF kind = "abort" THEN "error" ELSE "traceback", step, status, 0) >>]

Stop(kind, step, status) ==
    [kind |-> kind, db |-> Db, locals |-> Locals,
     target |-> [pc |-> "end", pending |-> <<>>],
     tokens |-> << Token(IF kind = "abort" THEN "error" ELSE "traceback", step, status, 0) >>]

Step(fn, uid, id, status, first, o) ==
    /\ ApiCall(fn, uid, id, status, first)
    /\ IF o.kind = "go" THEN Continue(o.db, o.locals, o.target, o.tokens)
       ELSE /\ SetDb(o.db) /\ SetLocals(o.locals)
            /\ pc' = IF o.kind = "abort" THEN "aborted" ELSE "crashed"
            /\ out' = o.tokens
            /\ UNCHANGED <<scout_idx, pending>>
    /\ UNCHANGED <<mode, skip_reqs, api, call, ret, runs>>

\* cmd_sync_scouts up to the scout loop: the roster is read and the token is
\* validated with the first scout.
CliValidate ==
    /\ pc = "start" /\ mode = "cli"
    /\ IF scouts = {}
       THEN /\ pc' = "no_scouts" /\ out' = << Token("no_scouts", "sync", 0, 0) >>
            /\ UNCHANGED <<tables, call, ret, runs, mode, skip_reqs, api, scout_idx,
                           ranks_data, mb_data, pending, req_count, rank_defn_cache,
                           mb_defn_cache, api_log, api_status, api_errors,
                           rank_defn_calls>>
       ELSE \E status \in ApiStatuses :
              /\ ApiCall("validate_token", ScoutOrder[1], 0, status, TRUE)
              /\ SetDb(Db) /\ SetLocals(Locals) /\ pending' = pending
              /\ IF AbortOnUnauthorized(mode, "validate_token", status)
                 THEN /\ pc' = "aborted" /\ scout_idx' = scout_idx
                      /\ out' = << Token("error", "validate", status, 0) >>
                 ELSE /\ pc' = "ranks" /\ scout_idx' = 1
                      /\ out' = IF status = 200 THEN << Token("ok", "validate", 0, 0) >>
                                ELSE << Token("warning", "validate", status, 0) >>
              /\ UNCHANGED <<mode, skip_reqs, api, call, ret, runs>>

\* native_sync.main up to the scout loop: without a password, or when
\* authenticate fails, the error record and sys.exit(1); else, after the
\* steps that lead to InitSync, the roster query.
NativeStart ==
    /\ pc = "start" /\ mode = "native"
    /\ \/ /\ pc' = "auth_failed" /\ scout_idx' = scout_idx
          /\ out' = << Token("error", "authenticate", 0, 0) >>
       \/ IF scouts = {}
          THEN /\ pc' = "no_scouts" /\ scout_idx' = scout_idx
               /\ out' = << Token("log", "no_scouts", 0, 0),
                            Token("complete", "sync", 0, 0) >>
          ELSE /\ pc' = "ranks" /\ scout_idx' = 1
               /\ out' = << Token("step", "sync", Total, 0) >>
    /\ UNCHANGED <<tables, call, ret, runs, mode, skip_reqs, api, ranks_data, mb_data,
                   pending, req_count, rank_defn_cache, mb_defn_cache, api_log,
                   api_status, api_errors, rank_defn_calls>>

\* get_youth_ranks and store_youth_ranks.
SyncRanks ==
    /\ pc = "ranks"
    /\ LET uid == ScoutOrder[scout_idx]
           header == << Token("scout", "loop", scout_idx, Total) >>
       IN  \E status \in ApiStatuses :
             Step("get_youth_ranks", uid, 0, status, TRUE,
                IF status # 200
                THEN IF AbortOnUnauthorized(mode, "get_youth_ranks", status)
                     THEN Stop("abort", "ranks", status)
                     ELSE LET l == [Locals EXCEPT !.ranks_data = <<>>]
                          IN  Go(Db, l, Enter(mode, 2, skip_reqs, l),
                                 header \o StatusTokens(mode, "ranks", status))
                ELSE LET resp == api.ranks[uid]
                         r == store_youth_ranks(scouts, ranks, scout_advancements,
                                  sqlite_sequence.scout_advancements, uid, resp)
                         l == [Locals EXCEPT !.ranks_data = << resp >>]
                     IN  IF r.raised THEN Stop("crash", "ranks", status)
                         ELSE Go([Db EXCEPT !.ranks = r.ranks, !.scouts = r.scouts,
                                     !.scout_advancements = r.scout_advancements,
                                     !.sqlite_sequence =
                                        [sqlite_sequence EXCEPT !.scout_advancements = r.seq]],
                                 l, Enter(mode, 2, skip_reqs, l),
                                 header \o OkTokens(mode, "ranks", r.total, 0)))


\* The requirement loop of the ranks goes to its next rank, or is over: the
\* CLI then prints the number of completions stored for the scout.
RankLoopNext(d, l) ==
    IF Tail(pending) # <<>> THEN Go(d, l, RankWork(Tail(pending), l), <<>>)
    ELSE Go(d, [l EXCEPT !.req_count = 0],
            Enter(mode, PhaseIndex(mode, "rank_reqs") + 1, skip_reqs, l),
            IF l.req_count > 0 THEN OkTokens(mode, "rank_reqs", l.req_count, 0) ELSE <<>>)

\* The same for the requirement loop of the merit badges.
MbLoopNext(d, l) ==
    IF Tail(pending) # <<>> THEN Go(d, l, MbWork(Tail(pending), l), <<>>)
    ELSE Go(d, [l EXCEPT !.req_count = 0],
            Enter(mode, PhaseIndex(mode, "mb_reqs") + 1, skip_reqs, l),
            IF l.req_count > 0 THEN OkTokens(mode, "reqs", l.req_count, 0) ELSE <<>>)

\* get_rank_requirements and upsert_requirements for a rank that is not in
\* rank_defn_cache; an API error skips the rank.
FetchRankDefinition ==
    /\ pc = "rank_defn"
    /\ LET rank_id == Head(pending)
       IN  \E status \in ApiStatuses :
             Step("get_rank_requirements", "", rank_id, status, FALSE,
                IF status # 200
                THEN IF AbortOnUnauthorized(mode, "get_rank_requirements", status)
                     THEN Stop("abort", "rank_reqs", status)
                     ELSE RankLoopNext(Db, Locals)
                ELSE LET r == upsert_requirements(ranks, requirements, rank_id,
                                                  RankDefinition(rank_id))
                     IN  IF r.raised THEN Stop("crash", "rank_reqs", status)
                         ELSE Go([Db EXCEPT !.requirements = r.requirements],
                                 [Locals EXCEPT !.rank_defn_cache = @ \cup { rank_id }],
                                 [pc |-> "rank_reqs", pending |-> pending], <<>>))

\* get_youth_rank_requirements and store_youth_rank_requirements.
SyncRankRequirements ==
    /\ pc = "rank_reqs"
    /\ LET uid == ScoutOrder[scout_idx]
           rank_id == Head(pending)
       IN  \E status \in ApiStatuses :
             Step("get_youth_rank_requirements", uid, rank_id, status, FALSE,
                IF status # 200
                THEN IF AbortOnUnauthorized(mode, "get_youth_rank_requirements", status)
                     THEN Stop("abort", "rank_reqs", status)
                     ELSE RankLoopNext(Db, Locals)
                ELSE LET r == store_youth_rank_requirements(scouts, ranks, requirements,
                                  scout_requirement_completions,
                                  sqlite_sequence.scout_requirement_completions, uid, rank_id,
                                  RankCompletions(rank_id, <<uid, rank_id>> \in api.stray))
                     IN  IF r.raised THEN Stop("crash", "rank_reqs", status)
                         ELSE RankLoopNext(
                                 [Db EXCEPT !.scout_requirement_completions = r.completions,
                                     !.sqlite_sequence = [sqlite_sequence EXCEPT
                                         !.scout_requirement_completions = r.seq]],
                                 [Locals EXCEPT !.req_count = @ + r.count]))

\* get_youth_merit_badges and store_youth_merit_badges.
SyncMeritBadges ==
    /\ pc = "mbs"
    /\ LET uid == ScoutOrder[scout_idx]
           k == PhaseIndex(mode, "mbs") + 1
       IN  \E status \in ApiStatuses :
             Step("get_youth_merit_badges", uid, 0, status, FALSE,
                IF status # 200
                THEN IF AbortOnUnauthorized(mode, "get_youth_merit_badges", status)
                     THEN Stop("abort", "mbs", status)
                     ELSE LET l == [Locals EXCEPT !.mb_data = <<>>]
                          IN  Go(Db, l, Enter(mode, k, skip_reqs, l),
                                 StatusTokens(mode, IF mode = "cli" THEN "mbs"
                                                    ELSE "merit badges", status))
                ELSE LET r == store_youth_merit_badges(scouts, merit_badges,
                                  scout_merit_badges, sqlite_sequence.merit_badges,
                                  sqlite_sequence.scout_merit_badges, uid,
                                  YouthMeritBadges(api, uid))
                         l == [Locals EXCEPT !.mb_data = << YouthMeritBadges(api, uid) >>]
                     IN  IF r.raised THEN Stop("crash", "mbs", status)
                         ELSE Go([Db EXCEPT !.merit_badges = r.merit_badges,
                                     !.scout_merit_badges = r.scout_merit_badges,
                                     !.sqlite_sequence = [sqlite_sequence EXCEPT
                                         !.merit_badges = r.seq_mb,
                                         !.scout_merit_badges = r.seq_smb]],
                                 l, Enter(mode, k, skip_reqs, l),
                                 OkTokens(mode, "mbs", r.earned, r.total)))

\* get_leadership_history and store_leadership.
SyncLeadership ==
    /\ pc = "leadership"
    /\ LET uid == ScoutOrder[scout_idx]
           k == PhaseIndex(mode, "leadership") + 1
       IN  \E status \in ApiStatuses :
             Step("get_leadership_history", uid, 0, status, FALSE,
                IF status # 200
                THEN IF AbortOnUnauthorized(mode, "get_leadership_history", status)
                     THEN Stop("abort", "lead", status)
                     ELSE Go(Db, Locals, Enter(mode, k, skip_reqs, Locals),
                             StatusTokens(mode, "lead", status))
                ELSE LET r == store_leadership(scouts, scout_leadership,
                                  sqlite_sequence.scout_leadership, uid, Leadership)
                     IN  IF r.raised THEN Stop("crash", "lead", status)
                         ELSE Go([Db EXCEPT !.scout_leadership = r.scout_leadership,
                                     !.sqlite_sequence = [sqlite_sequence EXCEPT
                                         !.scout_leadership = r.seq]],
                                 Locals, Enter(mode, k, skip_reqs, Locals),
                                 OkTokens(mode, "leadership", r.count, 0)))

\* get_person_profile and, when the profile has a birthdate, upsert_scout.
SyncProfile ==
    /\ pc = "profile"
    /\ LET uid == ScoutOrder[scout_idx]
           k == PhaseIndex(mode, "profile") + 1
       IN  \E status \in ApiStatuses :
             Step("get_person_profile", uid, 0, status, FALSE,
                IF status # 200
                THEN IF AbortOnUnauthorized(mode, "get_person_profile", status)
                     THEN Stop("abort", "dob", status)
                     ELSE Go(Db, Locals, Enter(mode, k, skip_reqs, Locals),
                             StatusTokens(mode, "dob", status))
                ELSE LET profile == Profile(uid)
                         birthdate == IF profile.dateOfBirth # 0 THEN profile.dateOfBirth
                                      ELSE IF profile.birthDate # 0 THEN profile.birthDate
                                      ELSE IF profile.dob # 0 THEN profile.dob
                                      ELSE profile.profile.dateOfBirth
                     IN  IF birthdate # 0
                         THEN Go([Db EXCEPT !.scouts = upsert_scout(scouts, uid, birthdate)],
                                 Locals, Enter(mode, k, skip_reqs, Locals),
                                 OkTokens(mode, "dob", 0, 0))
                         ELSE Go(Db, Locals, Enter(mode, k, skip_reqs, Locals), <<>>))

\* get_mb_requirements and upsert_mb_requirements for a badge that is not in
\* mb_defn_cache; an API error skips the badge.
FetchMbDefinition ==
    /\ pc = "mb_defn"
    /\ LET mb == Head(pending)
       IN  \E status \in ApiStatuses :
             Step("get_mb_requirements", "", mb.id, status, FALSE,
                IF status # 200
                THEN IF AbortOnUnauthorized(mode, "get_mb_requirements", status)
                     THEN Stop("abort", "reqs", status)
                     ELSE MbLoopNext(Db, Locals)
                ELSE LET defn == MbDefinitionIn(api, mb.id)
                         version_id == IF defn.versionId # "" THEN defn.versionId
                                       ELSE mb.versionId
                         r == upsert_mb_requirements(mb_requirements, mb.id, version_id, defn)
                     IN  IF r.raised THEN Stop("crash", "reqs", status)
                         ELSE Go([Db EXCEPT !.mb_requirements = r.mb_requirements],
                                 [Locals EXCEPT !.mb_defn_cache =
                                     { c \in @ : c.mb_id # mb.id } \cup
                                     { [mb_id |-> mb.id, version_id |-> version_id] }],
                                 [pc |-> "mb_reqs", pending |-> pending], <<>>))

\* get_youth_mb_requirements and store_youth_mb_requirements.
SyncMbRequirements ==
    /\ pc = "mb_reqs"
    /\ LET uid == ScoutOrder[scout_idx]
           mb == Head(pending)
           cached == { c.version_id : c \in { x \in mb_defn_cache : x.mb_id = mb.id } }
           version_id == IF cached # {} /\ cached # { "" } THEN CHOOSE v \in cached : TRUE
                         ELSE mb.versionId
       IN  \E status \in ApiStatuses :
             Step("get_youth_mb_requirements", uid, mb.id, status, FALSE,
                IF status # 200
                THEN IF AbortOnUnauthorized(mode, "get_youth_mb_requirements", status)
                     THEN Stop("abort", "reqs", status)
                     ELSE MbLoopNext(Db, Locals)
                ELSE LET r == store_youth_mb_requirements(scouts,
                                  scout_mb_requirement_completions,
                                  sqlite_sequence.scout_mb_requirement_completions, uid,
                                  mb.id, version_id, MbCompletions(mb.id))
                     IN  IF r.raised THEN Stop("crash", "reqs", status)
                         ELSE MbLoopNext(
                                 [Db EXCEPT !.scout_mb_requirement_completions = r.completions,
                                     !.sqlite_sequence = [sqlite_sequence EXCEPT
                                         !.scout_mb_requirement_completions = r.seq]],
                                 [Locals EXCEPT !.req_count = @ + r.count]))

NextSync ==
    \/ CliValidate \/ NativeStart
    \/ SyncRanks \/ FetchRankDefinition \/ SyncRankRequirements
    \/ SyncMeritBadges \/ SyncLeadership \/ SyncProfile
    \/ FetchMbDefinition \/ SyncMbRequirements

SpecSync == InitSync /\ [][NextSync]_vars


\* ------------------------------------------------------ claims on SpecSync
\* The positions of the scout loop at which an API call is made.
LoopSteps == { "ranks", "rank_defn", "rank_reqs", "mbs", "leadership", "profile",
               "mb_defn", "mb_reqs" }

\* The calls a scout's pass through the loop makes whatever comes back.
ScoutFetches == { "get_youth_ranks", "get_youth_merit_badges", "get_leadership_history",
                  "get_person_profile" }

\* The last API call made.
LastCall == api_log[Len(api_log)]

\* The step taken makes an API call of the scout loop that comes back with
\* 401; the run is then over at that call: it is aborted, it stays with the
\* same scout, and what is printed is the error and no status token.
UnauthorizedStopsRun ==
    (pc \in LoopSteps /\ api_status' = 401)
    => /\ pc' = "aborted"
       /\ scout_idx' = scout_idx
       /\ \A i \in 1..Len(out') : out'[i].kind # "status"
       /\ \E i \in 1..Len(out') : out'[i].kind = "error"

\* C1: in the CLI sync, a 401 from any API call of the scout loop stops the
\* run at that call: the run is aborted with the error message and without
\* a status token, and an aborted run takes no further step, so no API call
\* follows and no later scout is processed.
C1_CliUnauthorizedStopsRun ==
    [][ mode = "cli" => (UnauthorizedStopsRun /\ pc # "aborted") ]_vars

\* The CLI sync was aborted by a 401 from a call other than the ranks fetch
\* while a later scout was still to come.
C1_Witness ==
    /\ mode = "cli" /\ pc = "aborted" /\ api_status = 401
    /\ LastCall.fn \notin { "validate_token", "get_youth_ranks" }
    /\ scout_idx >= 1 /\ scout_idx < Total

\* C2: in the native sync, a 401 from any API call of the scout loop is
\* fatal: an error record is emitted, the run is aborted (exit status 1) and
\* takes no further step.
C2_NativeUnauthorizedStopsRun ==
    [][ mode = "native" => (UnauthorizedStopsRun /\ pc # "aborted") ]_vars

\* C3: the token validation of the CLI aborts the run on 401 and on 403, no
\* scout being processed; on any other error status it prints a warning and
\* enters the scout loop.
C3_ValidationAbortsOn401And403 ==
    [][ (mode = "cli" /\ pc = "start" /\ scouts # {})
        => /\ api_status' \in { 401, 403 } => (pc' = "aborted" /\ scout_idx' = 0)
           /\ api_status' \notin { 200, 401, 403 }
                 => /\ pc' = "ranks" /\ scout_idx' = 1
                    /\ out' = << Token("warning", "validate", api_status', 0) >> ]_vars

\* The scout whose pass through the loop is just over.
FinishedScout ==
    IF pc = "done" THEN scout_idx
    ELSE IF pc = "ranks" /\ scout_idx > 1 THEN scout_idx - 1 ELSE 0

\* C4: a step of the scout loop whose API call fails with a status other
\* than 401 does not end the run and writes nothing; when a scout's pass
\* through the loop is over, the four fetches of the scout have all been
\* made, and, unless requirements are skipped, so has a requirement fetch for
\* every in-progress rank of the ranks response; a run that is done has gone
\* through every scout and has emitted the success signal with the number of
\* scouts of the roster.
C4_ApiErrorDoesNotAbort ==
    /\ [][ (pc \in LoopSteps /\ api_status' \notin { 200, 401 })
           => /\ pc' \in LoopSteps \cup { "done" }
              /\ UNCHANGED tables ]_vars
    /\ [] ( FinishedScout # 0
            => /\ \A fn \in ScoutFetches :
                    \E i \in 1..Len(api_log) :
                       api_log[i].fn = fn /\ api_log[i].uid = ScoutOrder[FinishedScout]
               /\ (~ skip_reqs /\ ranks_data # <<>>)
                    => \A j \in 1..Len(InProgressRanks(ranks_data[1])) :
                         \E i \in 1..Len(api_log) :
                            /\ api_log[i].id = InProgressRanks(ranks_data[1])[j]
                            /\ api_log[i].fn \in { "get_rank_requirements",
                                                   "get_youth_rank_requirements" } )
    /\ [] ( pc = "done"
            => /\ scout_idx = Total
               /\ \E i \in 1..Len(out) : out[i] = Token("done", "sync", Total, 0) )

\* A CLI run over the largest roster is done although API calls have failed
\* (with a status other than 401, which ends a CLI run).
C4_Witness ==
    /\ mode = "cli" /\ pc = "done" /\ Total = MaxScouts /\ api_errors >= 1
    /\ api_status \in ErrorStatuses \ { 401 }

\* C5: when the completion tree of a rank names a requirement that has no
\* definition row, the failure stays with that rank: the step goes on to the
\* scout's next rank or next step, the run does not end.
C5_StrayRequirementConfinedToRank ==
    [][ ( /\ pc = "rank_reqs" /\ api_status' = 200
          /\ <<ScoutOrder[scout_idx], Head(pending)>> \in api.stray )
        => pc' \in LoopSteps \cup { "done" } ]_vars


\* =========================================================================
\* SpecBadges: store_youth_merit_badges called for scout U1 on a seeded store
\* that holds two scouts and was left by an earlier merit-badge sync.
\* =========================================================================
\* The largest number of items in one merit-badge response.
MaxBadgeItems == 2

\* What an item of a merit-badge response carries: its name or, without a
\* name, its short name (Camping is a seeded Eagle badge, Art is not in the
\* seed list); its dates (0: none); and the two spellings of the Eagle flag.
\* An item without name and short name comes with and without a completion
\* date.
BadgeItems ==
    { [name |-> n[1], short |-> n[2], id |-> 10, versionId |-> "v1",
       dateCompleted |-> d[1], dateEarned |-> d[2], dateStarted |-> d[3],
       isEagleRequired |-> e[1], eagleRequired |-> e[2]] :
        n \in { <<"Camping", "">>, <<"", "Art">> },
        d \in { <<0, 0, 0>>, <<0, 0, 3>>, <<1, 0, 3>>, <<0, 2, 0>> },
        e \in { <<FALSE, FALSE>>, <<TRUE, FALSE>>, <<FALSE, TRUE>> } }
    \cup
    { [name |-> "", short |-> "", id |-> 10, versionId |-> "v1",
       dateCompleted |-> d, dateEarned |-> 0, dateStarted |-> 3,
       isEagleRequired |-> TRUE, eagleRequired |-> FALSE] : d \in { 0, 1 } }

\* The item lists of length n.
BadgeListsOfLen(n) == [1..n -> BadgeItems]

\* A merit-badge response: a list of items, or a dict (an error body).
BadgeResponse(is_list, items) ==
    IF is_list THEN [kind |-> "list", items |-> items]
    ELSE [kind |-> "dict", items |-> <<>>]

\* The merit-badge sync that ran before: none, or the sync of one scout whose
\* response had Camping not flagged and in progress, and Art flagged and
\* completed.
PriorBadgeSyncs ==
    { [user_id |-> u,
       mb_response |-> [kind |-> "list", items |->
           << [name |-> "Camping", short |-> "", id |-> 10, versionId |-> "v1",
               dateCompleted |-> 0, dateEarned |-> 0, dateStarted |-> 3,
               isEagleRequired |-> FALSE, eagleRequired |-> FALSE],
              [name |-> "Art", short |-> "", id |-> 11, versionId |-> "v1",
               dateCompleted |-> 1, dateEarned |-> 0, dateStarted |-> 3,
               isEagleRequired |-> TRUE, eagleRequired |-> FALSE] >>]] :
        u \in { "U1", "U2" } }
    \cup { [user_id |-> "U1", mb_response |-> [kind |-> "list", items |-> <<>>]] }

InitBadges ==
    \E prior \in PriorBadgeSyncs :
        LET roster == { [user_id |-> u, current_rank_id |-> NULL, birthdate |-> NULL] :
                          u \in { "U1", "U2" } }
            r == store_youth_merit_badges(roster, Seeded.merit_badges, {}, Seeded.seq, 0,
                                          prior.user_id, prior.mb_response)
        IN  /\ scouts = roster
            /\ merit_badges = r.merit_badges
            /\ scout_merit_badges = r.scout_merit_badges
            /\ sqlite_sequence = [NoRowsYet EXCEPT !.merit_badges = r.seq_mb,
                                                   !.scout_merit_badges = r.seq_smb]
            /\ scout_leadership = {}
            /\ ranks = {} /\ scout_advancements = {}
            /\ requirements = {} /\ mb_requirements = {}
            /\ scout_requirement_completions = {}
            /\ scout_mb_requirement_completions = {}
            /\ NoSync
            /\ pc = "ready"
            /\ call = [op |-> "none"]
            /\ ret = [earned |-> 0, total |-> 0]
            /\ runs = 0

CallStoreYouthMeritBadges ==
    /\ pc = "ready"
    /\ \E user_id \in { "U1" }, n \in 0..MaxBadgeItems, is_list \in BOOLEAN :
       \E items \in IF is_list THEN BadgeListsOfLen(n) ELSE BadgeListsOfLen(0) :
         LET mb_response == BadgeResponse(is_list, items)
             r == store_youth_merit_badges(scouts, merit_badges, scout_merit_badges,
                      sqlite_sequence.merit_badges, sqlite_sequence.scout_merit_badges,
                      user_id, mb_response)
         IN  /\ call' = [op |-> "store_youth_merit_badges", user_id |-> user_id,
                         mb_response |-> mb_response]
             /\ pc' = IF r.raised THEN "raised" ELSE "returned"
             /\ merit_badges' = IF r.raised THEN merit_badges ELSE r.merit_badges
             /\ scout_merit_badges' =
                   IF r.raised THEN scout_merit_badges ELSE r.scout_merit_badges
             /\ sqlite_sequence' =
                   IF r.raised THEN sqlite_sequence
                   ELSE [sqlite_sequence EXCEPT !.merit_badges = r.seq_mb,
                                                !.scout_merit_badges = r.seq_smb]
             /\ ret' = IF r.raised THEN ret ELSE [earned |-> r.earned, total |-> r.total]
    /\ runs' = runs + 1
    /\ UNCHANGED <<scout_leadership, syncVars, ranks, scouts, scout_advancements,
                   requirements, mb_requirements, scout_requirement_completions,
                   scout_mb_requirement_completions>>

NextBadges == CallStoreYouthMeritBadges

SpecBadges == InitBadges /\ [][NextBadges]_vars

\* ---------------------------------------------------- claims on SpecBadges
\* The name under which an item is stored ("": the item is skipped).
StoredName(item) == IF item.name # "" THEN item.name ELSE item.short

\* The positions of the named items of a response.
NamedItems(mb_response) ==
    { i \in 1..Len(mb_response.items) : StoredName(mb_response.items[i]) # "" }

\* The named items that no later item of the same name overwrites.
LastOfName(mb_response) ==
    { i \in NamedItems(mb_response) :
        \A j \in NamedItems(mb_response) :
            StoredName(mb_response.items[j]) = StoredName(mb_response.items[i]) => j <= i }

HasCompletionDate(item) == item.dateCompleted # 0 \/ item.dateEarned # 0

\* C11: after store_youth_merit_badges has returned, the earned count is the
\* number of named items with dateCompleted or dateEarned, the row of every
\* named item (of the last item of a name that occurs twice) is 'completed'
\* exactly when the item has one of the two dates and 'in_progress'
\* otherwise, and no scout_merit_badges row holds another status.
C11_StatusFollowsCompletionDate ==
    /\ \A row \in scout_merit_badges : row.status \in { "completed", "in_progress" }
    /\ ( pc = "returned" /\ call.op = "store_youth_merit_badges" )
       => /\ ret.earned = Cardinality({ i \in NamedItems(call.mb_response) :
                                          HasCompletionDate(call.mb_response.items[i]) })
          /\ ret.total = Len(call.mb_response.items)
          /\ \A i \in LastOfName(call.mb_response) :
               LET item == call.mb_response.items[i]
               IN  \E row \in scout_merit_badges :
                     /\ row.scout_user_id = call.user_id
                     /\ row.merit_badge_name = StoredName(item)
                     /\ row.status = IF HasCompletionDate(item) THEN "completed"
                                     ELSE "in_progress"

\* A response with a badge that has only dateEarned and a badge that has
\* only a start date has been stored: one earned, one in progress.
C11_Witness ==
    /\ pc = "returned" /\ call.op = "store_youth_merit_badges"
    /\ ret.earned = 1 /\ ret.total = 2
    /\ \E i, j \in LastOfName(call.mb_response) :
         /\ call.mb_response.items[i].dateCompleted = 0
         /\ call.mb_response.items[i].dateEarned # 0
         /\ ~ HasCompletionDate(call.mb_response.items[j])
         /\ call.mb_response.items[j].dateStarted # 0
    /\ \E row \in scout_merit_badges :
         row.scout_user_id = call.user_id /\ row.status = "in_progress"
    /\ \E row \in scout_merit_badges :
         row.scout_user_id = call.user_id /\ row.status = "completed"

\* The Eagle flag an item carries.
EagleFlag(item) == IF item.isEagleRequired \/ item.eagleRequired THEN 1 ELSE 0

\* The catalog row of a badge name, as a set (empty: no row).
CatalogRows(mbTbl, name) == { b \in mbTbl : b.name = name }

\* C17: a call of store_youth_merit_badges leaves the catalog row of every
\* badge name of the response with is_eagle_required equal to the flag of
\* the last item of that name, whatever the seed or another scout's sync had
\* stored, and leaves the catalog row of every other name as it was.
C17_EagleFlagFollowsLastItem ==
    [][ ( call'.op = "store_youth_merit_badges" /\ pc' = "returned" /\ runs' = runs + 1 )
        => /\ \A i \in LastOfName(call'.mb_response) :
                LET item == call'.mb_response.items[i]
                IN  /\ CatalogRows(merit_badges', StoredName(item)) # {}
                    /\ \A b \in CatalogRows(merit_badges', StoredName(item)) :
                         b.is_eagle_required = EagleFlag(item)
           /\ \A b \in merit_badges \cup merit_badges' :
                b.name \notin { StoredName(call'.mb_response.items[i]) :
                                  i \in NamedItems(call'.mb_response) }
                => CatalogRows(merit_badges', b.name) = CatalogRows(merit_badges, b.name)
      ]_vars

\* After scout U2's sync had cleared the seeded flag of Camping and set the
\* flag of Art, scout U1's response has set Camping's flag and cleared Art's;
\* Cooking, in no response, keeps its seeded flag.
C17_Witness ==
    /\ pc = "returned" /\ call.op = "store_youth_merit_badges" /\ call.user_id = "U1"
    /\ \E row \in scout_merit_badges :
         row.scout_user_id = "U2" /\ row.merit_badge_name = "Art"
    /\ \E i, j \in LastOfName(call.mb_response) :
         /\ StoredName(call.mb_response.items[i]) = "Camping"
         /\ EagleFlag(call.mb_response.items[i]) = 1
         /\ StoredName(call.mb_response.items[j]) = "Art"
         /\ EagleFlag(call.mb_response.items[j]) = 0
    /\ \A b \in CatalogRows(merit_badges, "Camping") : b.is_eagle_required = 1
    /\ \A b \in CatalogRows(merit_badges, "Art") : b.is_eagle_required = 0
    /\ \A b \in CatalogRows(merit_badges, "Cooking") : b.is_eagle_required = 1
    /\ CatalogRows(merit_badges, "Cooking") # {}


\* =========================================================================
\* SpecCatalog: upsert_ranks called on a store left by an earlier sync-ranks.
\* =========================================================================
\* The values of "active": missing, null, the booleans, 'True' and 'False'
\* in several letter cases, and another string.
ActiveValues ==
    { Absent, JsonNull, JsonBool(TRUE), JsonBool(FALSE),
      JsonStr(<<"T", "r", "u", "e">>), JsonStr(<<"T", "R", "U", "E">>),
      JsonStr(<<"F", "a", "l", "s", "e">>), JsonStr(<<"f", "a", "l", "s", "e">>),
      JsonStr(<<"F", "A", "L", "S", "E">>), JsonStr(<<"f", "A", "l", "S", "e">>),
      JsonStr(<<"y", "e", "s">>) }

\* The rank lists over the ids n..MaxRankId in rising order, every id once or
\* not at all.
RECURSIVE RankListsFrom(_)
RankListsFrom(n) ==
    IF n > MaxRankId THEN { <<>> }
    ELSE RankListsFrom(n + 1) \cup
         { <<[id |-> n, level |-> n, programId |-> SCOUTS_BSA_PROGRAM_ID, active |-> a]>> \o l :
             a \in ActiveValues, l \in RankListsFrom(n + 1) }

InitCatalog ==
    \E catalog \in RankCatalogs :
        /\ ranks = upsert_ranks({}, [kind |-> "list", items |-> catalog,
                                     has_value |-> FALSE, value |-> <<>>, ranks |-> <<>>]).ranks
        /\ scouts = {} /\ scout_advancements = {}
        /\ sqlite_sequence = NoRowsYet
        /\ merit_badges = Seeded.merit_badges /\ scout_merit_badges = {}
        /\ scout_leadership = {}
        /\ requirements = {} /\ mb_requirements = {}
        /\ scout_requirement_completions = {}
        /\ scout_mb_requirement_completions = {}
        /\ NoSync
        /\ pc = "ready"
        /\ call = [op |-> "none", rank_list |-> <<>>]
        /\ ret = [count |-> 0]
        /\ runs = 0

CallUpsertRanks ==
    /\ pc = "ready"
    /\ \E rank_list \in RankListsFrom(1) :
         \E payload \in RankWrappings(rank_list) :
           LET r == upsert_ranks(ranks, payload)
           IN  /\ call' = [op |-> "upsert_ranks", rank_list |-> rank_list]
               /\ ranks' = r.ranks
               /\ ret' = [count |-> r.count]
    /\ pc' = "returned"
    /\ runs' = runs + 1
    /\ UNCHANGED <<badgeTables, syncVars, scouts, scout_advancements, sqlite_sequence,
                   requirements, mb_requirements, scout_requirement_completions,
                   scout_mb_requirement_completions>>

NextCatalog == CallUpsertRanks

SpecCatalog == InitCatalog /\ [][NextCatalog]_vars

\* --------------------------------------------------- claims on SpecCatalog
\* The strings that spell 'False' in some letter case.
SpellsFalse(chars) ==
    /\ Len(chars) = 5
    /\ chars[1] \in { "F", "f" } /\ chars[2] \in { "A", "a" } /\ chars[3] \in { "L", "l" }
    /\ chars[4] \in { "S", "s" } /\ chars[5] \in { "E", "e" }

\* C12: after upsert_ranks, the row of a rank whose "active" is the string
\* 'False' in any letter case or the boolean false has active = 0, and the
\* row of a rank whose "active" is the string 'True', the boolean true or
\* missing has active = 1.
C12_ActiveCoercion ==
    ( pc = "returned" /\ call.op = "upsert_ranks" )
    => \A i \in 1..Len(call.rank_list) :
         LET rank == call.rank_list[i]
             row == CHOOSE r \in ranks : r.id = rank.id
         IN  /\ \E r \in ranks : r.id = rank.id
             /\ ( \/ rank.active.kind = "str" /\ SpellsFalse(rank.active.chars)
                  \/ rank.active = JsonBool(FALSE) ) => row.active = 0
             /\ ( \/ rank.active = JsonStr(<<"T", "r", "u", "e">>)
                  \/ rank.active = JsonBool(TRUE)
                  \/ rank.active = Absent ) => row.active = 1

\* A catalog whose first rank is inactive by the mixed-case string and whose
\* second rank is active by the boolean has been stored.
C12_Witness ==
    /\ pc = "returned" /\ call.op = "upsert_ranks" /\ Len(call.rank_list) >= 2
    /\ call.rank_list[1].active = JsonStr(<<"f", "A", "l", "S", "e">>)
    /\ call.rank_list[2].active = JsonBool(TRUE)
    /\ \E r \in ranks : r.id = call.rank_list[1].id /\ r.active = 0
    /\ \E r \in ranks : r.id = call.rank_list[2].id /\ r.active = 1


\* =========================================================================
\* SpecStore: the nine functions of the sync pipeline that write the store,
\* called one after the other in any order, on a new store or on the store
\* that a sync of scout U1 has left.
\* =========================================================================
\* The store after init_db.
NewStore ==
    [ranks |-> {}, requirements |-> {}, mb_requirements |-> {}, scouts |-> {},
     scout_advancements |-> {}, scout_requirement_completions |-> {},
     scout_mb_requirement_completions |-> {}, sqlite_sequence |-> NoRowsYet,
     merit_badges |-> Seeded.merit_badges, scout_merit_badges |-> {},
     scout_leadership |-> {}]

\* Each function on a store d: whether it raised, and the store it leaves.
On_upsert_ranks(d, payload) ==
    [raised |-> FALSE, db |-> [d EXCEPT !.ranks = upsert_ranks(d.ranks, payload).ranks]]

On_upsert_requirements(d, rank_id, payload) ==
    LET r == upsert_requirements(d.ranks, d.requirements, rank_id, payload)
    IN  [raised |-> r.raised, db |-> [d EXCEPT !.requirements = r.requirements]]

On_upsert_mb_requirements(d, mb_api_id, mb_version_id, payload) ==
    LET r == upsert_mb_requirements(d.mb_requirements, mb_api_id, mb_version_id, payload)
    IN  [raised |-> r.raised, db |-> [d EXCEPT !.mb_requirements = r.mb_requirements]]

On_store_youth_ranks(d, user_id, ranks_response) ==
    LET r == store_youth_ranks(d.scouts, d.ranks, d.scout_advancements,
                               d.sqlite_sequence.scout_advancements, user_id, ranks_response)
    IN  [raised |-> r.raised,
         db |-> [d EXCEPT !.ranks = r.ranks, !.scouts = r.scouts,
                          !.scout_advancements = r.scout_advancements,
                          !.sqlite_sequence.scout_advancements = r.seq]]

On_store_youth_merit_badges(d, user_id, mb_response) ==
    LET r == store_youth_merit_badges(d.scouts, d.merit_badges, d.scout_merit_badges,
                 d.sqlite_sequence.merit_badges, d.sqlite_sequence.scout_merit_badges,
                 user_id, mb_response)
    IN  [raised |-> r.raised,
         db |-> [d EXCEPT !.merit_badges = r.merit_badges,
                          !.scout_merit_badges = r.scout_merit_badges,
                          !.sqlite_sequence.merit_badges = r.seq_mb,
                          !.sqlite_sequence.scout_merit_badges = r.seq_smb]]

On_store_youth_rank_requirements(d, user_id, rank_id, payload) ==
    LET r == store_youth_rank_requirements(d.scouts, d.ranks, d.requirements,
                 d.scout_requirement_completions,
                 d.sqlite_sequence.scout_requirement_completions, user_id, rank_id, payload)
    IN  [raised |-> r.raised,
         db |-> [d EXCEPT !.scout_requirement_completions = r.completions,
                          !.sqlite_sequence.scout_requirement_completions = r.seq]]

On_store_youth_mb_requirements(d, user_id, mb_api_id, mb_version_id, payload) ==
    LET r == store_youth_mb_requirements(d.scouts, d.scout_mb_requirement_completions,
                 d.sqlite_sequence.scout_mb_requirement_completions, user_id,
                 mb_api_id, mb_version_id, payload)
    IN  [raised |-> r.raised,
         db |-> [d EXCEPT !.scout_mb_requirement_completions = r.completions,
                          !.sqlite_sequence.scout_mb_requirement_completions = r.seq]]

On_store_leadership(d, user_id, positions) ==
    LET r == store_leadership(d.scouts, d.scout_leadership,
                              d.sqlite_sequence.scout_leadership, user_id, positions)
    IN  [raised |-> r.raised,
         db |-> [d EXCEPT !.scout_leadership = r.scout_leadership,
                          !.sqlite_sequence.scout_leadership = r.seq]]

On_upsert_scout(d, user_id, birthdate) ==
    [raised |-> FALSE, db |-> [d EXCEPT !.scouts = upsert_scout(d.scouts, user_id, birthdate)]]

\* A list as a requirements payload, a ranks payload and a positions payload.
TreeList(f) == [kind |-> "list", items |-> f, requirements |-> <<>>, value |-> <<>>]
RankList(l) == [kind |-> "list", items |-> l, has_value |-> FALSE, value |-> <<>>,
                ranks |-> <<>>]
NoPositions == [kind |-> "list", has_value |-> FALSE, value |-> <<>>, positions |-> <<>>,
                items |-> <<>>]

\* The store after sync-ranks and a sync of scout U1 who has earned rank 1
\* and works on rank 2, Camping and Art.
SyncedStore ==
    LET d1 == On_upsert_scout(NewStore, "U1", NULL).db
        d2 == On_upsert_ranks(d1, RankList(
                  [i \in 1..MaxRankId |-> [id |-> i, level |-> i,
                       programId |-> SCOUTS_BSA_PROGRAM_ID, active |-> Absent]])).db
        d3 == On_store_youth_ranks(d2, "U1",
                  CHOOSE r \in SyncRanksResponses : r.program[1].ranks[1].dateEarned = 1).db
        d4 == On_upsert_requirements(d3, 2, RankDefinition(2)).db
        d5 == On_store_youth_rank_requirements(d4, "U1", 2, RankCompletions(2, FALSE)).db
        d6 == On_store_youth_merit_badges(d5, "U1", MeritBadges).db
        d7 == On_upsert_mb_requirements(d6, 10, "v1", MbDefinition(10)).db
        d8 == On_store_youth_mb_requirements(d7, "U1", 10, "v1", MbCompletions(10)).db
        d9 == On_store_leadership(d8, "U1", Leadership).db
    IN  On_upsert_scout(d9, "U1", 1).db

\* The arguments the functions are called with.
StoreUsers == { "U1", "U2" }

DefinitionTrees ==
    { <<>>, << Req(1, 0, <<>>) >> } \cup
    { RankDefinition(r).requirements : r \in 1..MaxRankId }

CompletionTrees(rank_id) ==
    { <<>> } \cup { RankCompletions(rank_id, stray).items : stray \in BOOLEAN }

\* The ranks responses of the sync, one that lists nothing and one that
\* lists rank 1 alone.
StoreRanksResponses ==
    SyncRanksResponses \cup
    { [program |-> <<>>],
      [program |-> << [programId |-> SCOUTS_BSA_PROGRAM_ID,
                       ranks |-> << [id |-> 1, dateEarned |-> 1, dateCompleted |-> 0] >>] >>] }

StoreBadgeResponses ==
    { MeritBadges, [kind |-> "list", items |-> <<>>],
      [kind |-> "list", items |-> << Badge("Art", 11, 0) >>] }

InitStore ==
    /\ \E d \in { NewStore, SyncedStore } :
         /\ ranks = d.ranks /\ requirements = d.requirements
         /\ mb_requirements = d.mb_requirements /\ scouts = d.scouts
         /\ scout_advancements = d.scout_advancements
         /\ scout_requirement_completions = d.scout_requirement_completions
         /\ scout_mb_requirement_completions = d.scout_mb_requirement_completions
         /\ sqlite_sequence = d.sqlite_sequence /\ merit_badges = d.merit_badges
         /\ scout_merit_badges = d.scout_merit_badges
         /\ scout_leadership = d.scout_leadership
    /\ NoSync
    /\ pc = "ready"
    /\ call = [op |-> "none", user_id |-> "", id |-> 0, size |-> 0]
    /\ ret = [count |-> 0]
    /\ runs = 0

\* One call: the function's name, the scout and the rank or badge it is
\* called for, and the number of entities its response lists; an
\* sqlite3.IntegrityError ends the process and its transaction is lost.
StoreCall(op, user_id, id, size, r) ==
    /\ call' = [op |-> op, user_id |-> user_id, id |-> id, size |-> size]
    /\ pc' = IF r.raised THEN "raised" ELSE "ready"
    /\ SetDb(IF r.raised THEN Db ELSE r.db)
    /\ runs' = runs + 1
    /\ UNCHANGED <<ret, syncVars>>

StoreUpsertRanks ==
    /\ pc = "ready" /\ runs < MaxRuns
    /\ \E catalog \in RankCatalogs :
         StoreCall("upsert_ranks", "", 0, Len(catalog),
                   On_upsert_ranks(Db, RankList(catalog)))

StoreUpsertRequirements ==
    /\ pc = "ready" /\ runs < MaxRuns
    /\ \E rank_id \in 1..MaxRankId, tree \in DefinitionTrees :
         StoreCall("upsert_requirements", "", rank_id, Len(tree),
                   On_upsert_requirements(Db, rank_id, TreeList(tree)))

StoreUpsertMbRequirements ==
    /\ pc = "ready" /\ runs < MaxRuns
    /\ \E tree \in { <<>>, << Req(1, 0, <<>>) >>, MbDefinition(10).requirements } :
         StoreCall("upsert_mb_requirements", "", 10, Len(tree),
                   On_upsert_mb_requirements(Db, 10, "v1", TreeList(tree)))

StoreYouthRanks ==
    /\ pc = "ready" /\ runs < MaxRuns
    /\ \E user_id \in StoreUsers, ranks_response \in StoreRanksResponses :
         StoreCall("store_youth_ranks", user_id, 0,
                   Len(ProgramRanks(ranks_response.program)),
                   On_store_youth_ranks(Db, user_id, ranks_response))

StoreYouthMeritBadges ==
    /\ pc = "ready" /\ runs < MaxRuns
    /\ \E user_id \in StoreUsers, mb_response \in StoreBadgeResponses :
         StoreCall("store_youth_merit_badges", user_id, 0, Len(mb_response.items),
                   On_store_youth_merit_badges(Db, user_id, mb_response))

StoreYouthRankRequirements ==
    /\ pc = "ready" /\ runs < MaxRuns
    /\ \E user_id \in StoreUsers, rank_id \in 1..MaxRankId :
         \E tree \in CompletionTrees(rank_id) :
           StoreCall("store_youth_rank_requirements", user_id, rank_id, Len(tree),
                     On_store_youth_rank_requirements(Db, user_id, rank_id, TreeList(tree)))

StoreYouthMbRequirements ==
    /\ pc = "ready" /\ runs < MaxRuns
    /\ \E user_id \in StoreUsers, tree \in { <<>>, MbCompletions(10).items } :
         StoreCall("store_youth_mb_requirements", user_id, 10, Len(tree),
                   On_store_youth_mb_requirements(Db, user_id, 10, "v1", TreeList(tree)))

StoreLeadership ==
    /\ pc = "ready" /\ runs < MaxRuns
    /\ \E user_id \in StoreUsers, positions \in { NoPositions, Leadership } :
         StoreCall("store_leadership", user_id, 0, Len(positions.items),
                   On_store_leadership(Db, user_id, positions))

StoreUpsertScout ==
    /\ pc = "ready" /\ runs < MaxRuns
    /\ \E user_id \in StoreUsers, birthdate \in { NULL, 1 } :
         StoreCall("upsert_scout", user_id, 0, 1, On_upsert_scout(Db, user_id, birthdate))

NextStore ==
    \/ StoreUpsertRanks \/ StoreUpsertRequirements \/ StoreUpsertMbRequirements
    \/ StoreYouthRanks \/ StoreYouthMeritBadges \/ StoreYouthRankRequirements
    \/ StoreYouthMbRequirements \/ StoreLeadership \/ StoreUpsertScout

SpecStore == InitStore /\ [][NextStore]_vars

\* ----------------------------------------------------- claims on SpecStore
\* The natural keys held by a store d, table by table.
NaturalKeys(d) ==
    [scouts |-> { sc.user_id : sc \in d.scouts },
     ranks |-> Ids(d.ranks),
     requirements |-> Ids(d.requirements),
     mb_requirements |-> Ids(d.mb_requirements),
     merit_badges |-> { b.name : b \in d.merit_badges },
     scout_advancements |->
         { <<a.scout_user_id, a.advancement_type, a.advancement_id>> :
             a \in d.scout_advancements },
     scout_merit_badges |->
         { <<b.scout_user_id, b.merit_badge_name>> : b \in d.scout_merit_badges },
     scout_requirement_completions |->
         { <<c.scout_user_id, c.requirement_id>> : c \in d.scout_requirement_completions },
     scout_mb_requirement_completions |->
         { <<c.scout_user_id, c.mb_requirement_id>> :
             c \in d.scout_mb_requirement_completions },
     scout_leadership |->
         { <<p.scout_user_id, p.position, p.start_date>> : p \in d.scout_leadership }]

KeysBefore == NaturalKeys(Db)

KeysAfter ==
    NaturalKeys([ranks |-> ranks', requirements |-> requirements',
                 mb_requirements |-> mb_requirements', scouts |-> scouts',
                 scout_advancements |-> scout_advancements',
                 scout_requirement_completions |-> scout_requirement_completions',
                 scout_mb_requirement_completions |-> scout_mb_requirement_completions',
                 sqlite_sequence |-> sqlite_sequence', merit_badges |-> merit_badges',
                 scout_merit_badges |-> scout_merit_badges',
                 scout_leadership |-> scout_leadership'])

\* C13: no call of the nine functions removes a natural key: every scout
\* id, rank id, requirement id, (scout, type, advancement id), (scout, badge
\* name) and (scout, requirement id) that a table held before the call is
\* held after it.
C13_SyncNeverDeletes ==
    [][ \A t \in DOMAIN KeysBefore : KeysBefore[t] \subseteq KeysAfter[t] ]_vars

\* After the sync of U1, a ranks response, a badge response or a completion
\* tree that lists nothing has been stored for U1, and U1's advancement
\* rows, badge rows and completion rows are still there.
C13_Witness ==
    /\ pc = "ready" /\ call.user_id = "U1" /\ call.size = 0
    /\ call.op \in { "store_youth_ranks", "store_youth_merit_badges",
                     "store_youth_rank_requirements" }
    /\ \E a \in scout_advancements : a.scout_user_id = "U1"
    /\ \E b \in scout_merit_badges : b.scout_user_id = "U1"
    /\ \E c \in scout_requirement_completions : c.scout_user_id = "U1"


\* C14: every requirements row with a non-null parent_requirement_id has a
\* parent row that exists and has the same rank_id as the row.
C14_ParentOfSameRank ==
    \A row \in requirements :
        row.parent_requirement_id # NULL
        => \E parent \in requirements :
             /\ parent.id = row.parent_requirement_id
             /\ parent.rank_id = row.rank_id

\* C15: every scout_requirement_completions row refers to a requirement, a
\* scout and a rank that exist.
C15_CompletionsReferToRows ==
    \A c \in scout_requirement_completions :
        /\ c.requirement_id \in Ids(requirements)
        /\ c.scout_user_id \in { sc.user_id : sc \in scouts }
        /\ c.rank_id \in Ids(ranks)

\* Completion rows of scout U1 are stored, and after them the definition
\* tree of their rank has been upserted again.
C15_Witness ==
    /\ pc = "ready" /\ call.op = "upsert_requirements" /\ call.size > 0
    /\ \E c \in scout_requirement_completions :
         c.scout_user_id = "U1" /\ c.rank_id = call.id


\* ------------------------------------------------ further claims on SpecSync
\* The API calls that fetch requirement definitions and completions.
RequirementFetches == { "get_rank_requirements", "get_youth_rank_requirements",
                        "get_mb_requirements", "get_youth_mb_requirements" }

C19_FailedFetchLeavesStore ==
    [][ ( \/ pc \in LoopSteps /\ api_errors' = api_errors + 1
          \/ pc = "aborted" )
        => UNCHANGED tables ]_vars

\* A run was aborted by a 401 for its second scout, after rows of the first
\* scout and of an earlier step of the second scout had been stored; the
\* rows are there.
C19_Witness ==
    /\ pc = "aborted" /\ api_status = 401 /\ scout_idx = 2
    /\ LastCall.fn \notin { "validate_token", "get_youth_ranks" }
    /\ \E a \in scout_advancements : a.scout_user_id = ScoutOrder[1]
    /\ \E a \in scout_advancements : a.scout_user_id = ScoutOrder[2]
    /\ \E b \in scout_merit_badges : b.scout_user_id = ScoutOrder[1]

\* C20: a step that fetches ranks, merit badges, leadership or the profile
\* and catches an API error emits, before the next step, a status token
\* with the step and the status code, in the CLI sync and in the native
\* sync.
C20_CaughtErrorIsSurfaced ==
    [][ ( /\ pc \in { "ranks", "mbs", "leadership", "profile" }
          /\ api_errors' = api_errors + 1
          /\ pc' # "aborted" )
        => \E i \in 1..Len(out') :
             out'[i].kind = "status" /\ out'[i].code = api_status' ]_vars


\* =========================================================================
\* SpecRoster: import_roster_csv and upsert_scout with all their columns,
\* called on a store without scouts or with one scout.  Text is a sequence
\* of characters; an optional value is <<>> (None) or <<v>>.
\* =========================================================================
\* The largest number of data rows of a roster CSV.
MaxRows == 2

\* COALESCE(excluded.x, x)
Coalesce_overwrite(new, old) == new

Coalesce(new, old) == IF new # <<>> THEN new ELSE old

\* upsert_scout with every column of the scouts table it writes, and
\* current_rank_id; now is datetime.now(timezone.utc).
upsert_scout_all_columns(scoutsTbl, user_id, first_name, last_name, scouting_member_id, patrol, birthdate, now) ==
    IF user_id \in { sc.user_id : sc \in scoutsTbl }
    THEN { IF sc.user_id = user_id
           THEN [sc EXCEPT !.first_name = Coalesce(first_name, @),
                           !.last_name = Coalesce(last_name, @),
                           !.scouting_member_id = Coalesce(scouting_member_id, @),
                           !.patrol = Coalesce(patrol, @),
                           !.birthdate = Coalesce(birthdate, @),
                           !.last_synced_at = now]
           ELSE sc : sc \in scoutsTbl }
    ELSE scoutsTbl \cup
         { [user_id |-> user_id, first_name |-> first_name, last_name |-> last_name,
            scouting_member_id |-> scouting_member_id, patrol |-> patrol,
            birthdate |-> birthdate, current_rank_id |-> NULL, last_synced_at |-> now] }

\* str.strip(), str.upper(), str.replace(" ", "_")
RECURSIVE StripLeft(_)
StripLeft(chars) ==
    IF chars # <<>> /\ Head(chars) = " " THEN StripLeft(Tail(chars)) ELSE chars

RECURSIVE StripRight(_)
StripRight(chars) ==
    IF chars # <<>> /\ chars[Len(chars)] = " "
    THEN StripRight(SubSeq(chars, 1, Len(chars) - 1)) ELSE chars

Strip(chars) == StripRight(StripLeft(chars))

UpperChar_identity(c) == c

UpperChar(c) ==
    IF \E i \in 1..Len(LowerCase) : LowerCase[i] = c
    THEN UpperCase[CHOOSE i \in 1..Len(LowerCase) : LowerCase[i] = c]
    ELSE c

Upper(chars) == [i \in 1..Len(chars) |-> UpperChar(chars[i])]

ReplaceSpaces(chars) == [i \in 1..Len(chars) |-> IF chars[i] = " " THEN "_" ELSE chars[i]]

\* header_map = {h.strip().lower().replace(" ", "_"): h for h in headers}:
\* the column (position in headers, 0: none) that a key maps to; a later
\* header with the same key replaces an earlier one.
HeaderColumn(headers, key) ==
    LET hits == { i \in 1..Len(headers) : ReplaceSpaces(Lower(Strip(headers[i]))) = key }
    IN  IF hits = {} THEN 0 ELSE CHOOSE i \in hits : \A j \in hits : j <= i

\* _find_col(*candidates)
RECURSIVE find_col(_, _)
find_col(headers, candidates) ==
    IF candidates = <<>> THEN 0
    ELSE LET col == HeaderColumn(headers, ReplaceSpaces(Lower(Head(candidates))))
         IN  IF col # 0 THEN col ELSE find_col(headers, Tail(candidates))

UserIdCandidates ==
    << <<"u", "s", "e", "r", "_", "i", "d">>,
       <<"u", "s", "e", "r", "i", "d">>,
       <<"u", "s", "e", "r", " ", "i", "d">> >>
MemberIdCandidates ==
    << <<"s", "c", "o", "u", "t", "i", "n", "g", "_", "m", "e", "m", "b", "e", "r", "_", "i", "d">>,
       <<"m", "e", "m", "b", "e", "r", "_", "i", "d">>,
       <<"s", "c", "o", "u", "t", "i", "n", "g", " ", "m", "e", "m", "b", "e", "r", " ", "i", "d">>,
       <<"m", "e", "m", "b", "e", "r", " ", "i", "d">>,
       <<"s", "c", "o", "u", "t", "i", "n", "g", "m", "e", "m", "b", "e", "r", "i", "d">>,
       <<"m", "e", "m", "b", "e", "r", "i", "d">> >>
FirstCandidates ==
    << <<"f", "i", "r", "s", "t", "_", "n", "a", "m", "e">>,
       <<"f", "i", "r", "s", "t">>,
       <<"f", "i", "r", "s", "t", "n", "a", "m", "e">> >>
LastCandidates ==
    << <<"l", "a", "s", "t", "_", "n", "a", "m", "e">>,
       <<"l", "a", "s", "t">>,
       <<"l", "a", "s", "t", "n", "a", "m", "e">> >>
NameCandidates ==
    << <<"n", "a", "m", "e">>,
       <<"s", "c", "o", "u", "t", "_", "n", "a", "m", "e">>,
       <<"s", "c", "o", "u", "t", "n", "a", "m", "e">> >>
PatrolCandidates ==
    << <<"p", "a", "t", "r", "o", "l">>,
       <<"p", "a", "t", "r", "o", "l", "_", "n", "a", "m", "e">>,
       <<"p", "a", "t", "r", "o", "l", "n", "a", "m", "e">> >>
TypeCandidates ==
    << <<"t", "y", "p", "e">>,
       <<"m", "e", "m", "b", "e", "r", "_", "t", "y", "p", "e">>,
       <<"m", "e", "m", "b", "e", "r", "t", "y", "p", "e">> >>

\* (row.get(col) or "").strip() if col else dflt
Cell(row, col, dflt) == IF col # 0 THEN <<Strip(row[col])>> ELSE dflt

\* full.split(" ", 1)
RECURSIVE SplitAtSpace(_, _)
SplitAtSpace(before, rest) ==
    IF rest = <<>> THEN << before >>
    ELSE IF Head(rest) = " " THEN << before, Tail(rest) >>
    ELSE SplitAtSpace(Append(before, Head(rest)), Tail(rest))

\* x or None
OrNone(chars) == IF chars = <<>> THEN <<>> ELSE <<chars>>

\* The loop of import_roster_csv over the remaining rows; cols holds the
\* detected columns, s the scouts table and the two counters.
RECURSIVE ImportRows(_, _, _, _)
ImportRows(cols, rows, now, s) ==
    IF rows = <<>> THEN s
    ELSE LET row == Head(rows)
             uid == Cell(row, cols.user_id, << <<>> >>)[1]
             mid == Cell(row, cols.member_id, << <<>> >>)[1]
             primary_id == IF uid # <<>> THEN uid ELSE mid
             parts == SplitAtSpace(<<>>, Cell(row, cols.name, << <<>> >>)[1])
             first == IF cols.name # 0 THEN OrNone(parts[1]) ELSE Cell(row, cols.first, <<>>)
             last == IF cols.name # 0
                     THEN (IF Len(parts) > 1 THEN <<parts[2]>> ELSE <<>>)
                     ELSE Cell(row, cols.last, <<>>)
             patrol == IF cols.patrol # 0 THEN OrNone(Cell(row, cols.patrol, <<>>)[1]) ELSE <<>>
         IN  IF cols.type # 0 /\ Upper(Cell(row, cols.type, <<>>)[1]) # <<"Y", "O", "U", "T", "H">>
             THEN ImportRows(cols, Tail(rows), now, [s EXCEPT !.skipped = @ + 1])
             ELSE IF uid = <<>> /\ mid = <<>>
             THEN ImportRows(cols, Tail(rows), now, [s EXCEPT !.skipped = @ + 1])
             ELSE ImportRows(cols, Tail(rows), now,
                      [s EXCEPT !.imported = @ + 1,
                                !.scouts = upsert_scout_all_columns(@, primary_id, first, last,
                                               OrNone(mid), patrol, <<>>, now)])

\* import_roster_csv on the parsed file: the header row and the data rows,
\* each a sequence of cells in the order of the headers.
import_roster_csv(scoutsTbl, headers, rows, now) ==
    LET first == find_col(headers, FirstCandidates)
        last == find_col(headers, LastCandidates)
        cols == [user_id |-> find_col(headers, UserIdCandidates),
                 member_id |-> find_col(headers, MemberIdCandidates),
                 first |-> first, last |-> last,
                 name |-> IF first = 0 /\ last = 0 THEN find_col(headers, NameCandidates)
                          ELSE 0,
                 patrol |-> find_col(headers, PatrolCandidates),
                 type |-> find_col(headers, TypeCandidates)]
    IN  IF cols.user_id = 0 /\ cols.member_id = 0
        THEN [raised |-> TRUE, imported |-> 0, skipped |-> 0, scouts |-> scoutsTbl]
        ELSE LET s == ImportRows(cols, rows, now,
                          [imported |-> 0, skipped |-> 0, scouts |-> scoutsTbl])
             IN  [raised |-> FALSE, imported |-> s.imported, skipped |-> s.skipped,
                  scouts |-> s.scouts]

\* ---------------------------------------------------------- roster files
\* The header rows of the roster files; field names what the column holds.
RosterHeaders ==
    { << [text |-> <<"U", "s", "e", "r", " ", "I", "D">>, field |-> "uid"],
         [text |-> <<"F", "i", "r", "s", "t", " ", "N", "a", "m", "e">>, field |-> "first"] >>,
      << [text |-> <<"U", "s", "e", "r", " ", "I", "D">>, field |-> "uid"],
         [text |-> <<"F", "i", "r", "s", "t", " ", "N", "a", "m", "e">>, field |-> "first"],
         [text |-> <<"T", "y", "p", "e">>, field |-> "type"] >>,
      << [text |-> <<"F", "i", "r", "s", "t", " ", "N", "a", "m", "e">>, field |-> "first"],
         [text |-> <<"E", "m", "a", "i", "l">>, field |-> "other"] >>,
      << [text |-> <<" ", "m", "e", "m", "b", "e", "r", " ", "i", "d", " ">>, field |-> "mid"],
         [text |-> <<"N", "a", "m", "e">>, field |-> "name"],
         [text |-> <<"P", "a", "t", "r", "o", "l">>, field |-> "patrol"],
         [text |-> <<"M", "e", "m", "b", "e", "r", " ", "T", "y", "p", "e">>, field |-> "type"] >>,
      << [text |-> <<"U", "s", "e", "r", "I", "D">>, field |-> "uid"],
         [text |-> <<"S", "c", "o", "u", "t", "i", "n", "g", " ", "M", "e", "m", "b", "e", "r", " ", "I", "D">>, field |-> "mid"] >>,
      << [text |-> <<"N", "a", "m", "e">>, field |-> "name"],
         [text |-> <<"T", "Y", "P", "E">>, field |-> "type"] >> }

\* What a person's line holds: user id, member id and type, next to a
\* name and a patrol.
RosterPerson(u, m, t) ==
    [uid |-> u, mid |-> m, type |-> t, first |-> <<"A", "l">>, name |-> <<"A", "l", " ", "S", "m", "i", "t", "h">>,
     patrol |-> <<"F", "o", "x">>, other |-> <<"x">>]

RosterPeople ==
    { RosterPerson(<<"U", "1">>, <<"M", "1">>, <<"Y", "O", "U", "T", "H">>),
      RosterPerson(<<" ", "U", "2", " ">>, <<>>, <<"y", "o", "u", "t", "h", " ">>),
      RosterPerson(<<>>, <<"M", "1">>, <<"y", "o", "u", "t", "h", " ">>),
      RosterPerson(<<>>, <<>>, <<"Y", "O", "U", "T", "H">>),
      RosterPerson(<<"U", "1">>, <<>>, <<"A", "D", "U", "L", "T">>),
      RosterPerson(<<>>, <<"M", "1">>, <<"A", "D", "U", "L", "T">>) }

\* The data row of a person under a header row.
RosterRow(header, person) == [i \in 1..Len(header) |-> person[header[i].field]]

\* The scout that is stored before the call: every column has a value.
StoredScout ==
    [user_id |-> <<"U", "1">>, first_name |-> << <<"B", "o">> >>, last_name |-> << <<"L", "e", "e">> >>,
     scouting_member_id |-> << <<"M", "9">> >>, patrol |-> << <<"O", "w", "l">> >>, birthdate |-> << <<"d">> >>,
     current_rank_id |-> 1, last_synced_at |-> 0]

InitRoster ==
    /\ scouts \in { {}, { StoredScout } }
    /\ ranks = { [id |-> 1, level |-> 1, program_id |-> SCOUTS_BSA_PROGRAM_ID, active |-> 1] }
    /\ merit_badges = Seeded.merit_badges /\ sqlite_sequence = NoRowsYet
    /\ requirements = {} /\ mb_requirements = {} /\ scout_advancements = {}
    /\ scout_requirement_completions = {} /\ scout_mb_requirement_completions = {}
    /\ scout_merit_badges = {} /\ scout_leadership = {}
    /\ NoSync
    /\ pc = "ready"
    /\ call = [op |-> "none"]
    /\ ret = [imported |-> 0, skipped |-> 0]
    /\ runs = 0

ImportRosterCsv ==
    /\ pc = "ready"
    /\ \E header \in RosterHeaders, n \in 0..MaxRows :
         \E people \in [1..n -> RosterPeople] :
           LET headers == [i \in 1..Len(header) |-> header[i].text]
               rows == [i \in 1..n |-> RosterRow(header, people[i])]
               r == import_roster_csv(scouts, headers, rows, runs + 1)
           IN  /\ call' = [op |-> "import_roster_csv", headers |-> headers, rows |-> rows,
                           fields |-> [i \in 1..Len(header) |-> header[i].field],
                           people |-> people]
               /\ pc' = IF r.raised THEN "raised" ELSE "returned"
               /\ scouts' = r.scouts
               /\ ret' = [imported |-> r.imported, skipped |-> r.skipped]
    /\ runs' = runs + 1
    /\ UNCHANGED <<ranks, requirements, mb_requirements, scout_advancements,
                   scout_requirement_completions, scout_mb_requirement_completions,
                   sqlite_sequence, badgeTables, syncVars>>

\* upsert_scout(conn, user_id, ...) with every keyword None or a value.
CallUpsertScout ==
    /\ pc = "ready"
    /\ \E user_id \in { <<"U", "1">>, <<"U", "7">> },
          first_name \in { <<>>, << <<"A", "l">> >>, << <<>> >> },
          last_name \in { <<>>, << <<"S", "m", "i", "t", "h">> >> },
          scouting_member_id \in { <<>>, << <<"M", "1">> >> },
          patrol \in { <<>>, << <<"F", "o", "x">> >> },
          birthdate \in { <<>>, << <<"e">> >> } :
         /\ call' = [op |-> "upsert_scout", user_id |-> user_id, first_name |-> first_name,
                     last_name |-> last_name, scouting_member_id |-> scouting_member_id,
                     patrol |-> patrol, birthdate |-> birthdate]
         /\ scouts' = upsert_scout_all_columns(scouts, user_id, first_name, last_name,
                                               scouting_member_id, patrol, birthdate, runs + 1)
    /\ pc' = "returned"
    /\ runs' = runs + 1
    /\ UNCHANGED <<ret, ranks, requirements, mb_requirements, scout_advancements,
                   scout_requirement_completions, scout_mb_requirement_completions,
                   sqlite_sequence, badgeTables, syncVars>>

NextRoster == ImportRosterCsv \/ CallUpsertScout

SpecRoster == InitRoster /\ [][NextRoster]_vars


\* -------------------------------------------------------------------------
\* C21: import_roster_csv raises and stores nothing when the header row has
\* neither a user-id nor a member-id column; otherwise imported + skipped is
\* the number of data rows, a row is imported exactly when it has a
\* non-empty id and, if there is a type column, its type is YOUTH in any
\* letter case, and the scouts the call writes are those of imported rows.
\* The file is judged by what its columns and lines hold (fields, people),
\* the call by its outcome.
HasField(fields, f) == \E i \in 1..Len(fields) : fields[i] = f

RosterId(fields, person) ==
    IF HasField(fields, "uid") /\ person.uid \notin { <<>> }
    THEN (IF person.uid = <<" ", "U", "2", " ">> THEN <<"U", "2">> ELSE person.uid)
    ELSE IF HasField(fields, "mid") THEN person.mid ELSE <<>>

RosterYouth(fields, person) ==
    HasField(fields, "type") => person.type \in { <<"Y", "O", "U", "T", "H">>, <<"y", "o", "u", "t", "h", " ">> }

RosterImportable(fields, person) ==
    RosterId(fields, person) # <<>> /\ RosterYouth(fields, person)

C21_RosterImport ==
    [][ (call'.op = "import_roster_csv" /\ runs' # runs) =>
        LET fields == call'.fields
            people == call'.people
            good == { i \in 1..Len(people) : RosterImportable(fields, people[i]) }
            written == { sc \in scouts' : sc.last_synced_at = runs' }
        IN  IF ~HasField(fields, "uid") /\ ~HasField(fields, "mid")
            THEN pc' = "raised" /\ scouts' = scouts
            ELSE /\ pc' = "returned"
                 /\ ret'.imported + ret'.skipped = Len(people)
                 /\ ret'.imported = Cardinality(good)
                 /\ { sc.user_id : sc \in written } =
                        { RosterId(fields, people[i]) : i \in good }
                 /\ \A sc \in scouts' \ written : sc \in scouts
                 /\ \A sc \in scouts : \E now \in scouts' : now.user_id = sc.user_id ]_vars

\* A file with a type column and two lines, one imported (its type is in
\* lower case) and one skipped, has been imported.
C21_Witness ==
    /\ call.op = "import_roster_csv" /\ pc = "returned"
    /\ HasField(call.fields, "type")
    /\ ret.imported = 1 /\ ret.skipped = 1
    /\ \E i \in 1..Len(call.people) :
         call.people[i].type = <<"y", "o", "u", "t", "h", " ">> /\ RosterImportable(call.fields, call.people[i])


\* -------------------------------------------------------------------------
\* C23: upsert_scout on an existing scout overwrites a field exactly when
\* the new value is not None, leaves current_rank_id alone and always
\* refreshes last_synced_at; so a call that passes only birthdate changes
\* nothing but birthdate and last_synced_at.
Given(new, old) == IF new = <<>> THEN old ELSE new

C23_UpsertScoutKeepsNoneFields ==
    [][ (call'.op = "upsert_scout" /\ runs' # runs) =>
        \A old \in scouts : old.user_id = call'.user_id =>
          \E new \in scouts' :
            /\ new.user_id = old.user_id
            /\ new.first_name = Given(call'.first_name, old.first_name)
            /\ new.last_name = Given(call'.last_name, old.last_name)
            /\ new.scouting_member_id = Given(call'.scouting_member_id, old.scouting_member_id)
            /\ new.patrol = Given(call'.patrol, old.patrol)
            /\ new.birthdate = Given(call'.birthdate, old.birthdate)
            /\ new.current_rank_id = old.current_rank_id
            /\ new.last_synced_at = runs' /\ new.last_synced_at # old.last_synced_at
            /\ Cardinality(scouts') = Cardinality(scouts) ]_vars

\* The profile step's call on the stored scout: only birthdate is passed,
\* and the scout keeps its names, member id, patrol and rank.
C23_Witness ==
    /\ call.op = "upsert_scout" /\ call.user_id = StoredScout.user_id
    /\ call.first_name = <<>> /\ call.last_name = <<>> /\ call.scouting_member_id = <<>>
    /\ call.patrol = <<>> /\ call.birthdate = << <<"e">> >>
    /\ scouts = { [StoredScout EXCEPT !.birthdate = << <<"e">> >>, !.last_synced_at = 1] }


\* =========================================================================
\* SpecQuery: most_common_incomplete_merit_badges on stores that
\* store_youth_merit_badges filled for up to two scouts.
\* =========================================================================
\* merit_badges.active: init_db and store_youth_merit_badges insert 1 and
\* nothing updates the column.
ActiveOf(mb) == 1

\* LEFT JOIN scout_merit_badges smb ON ... AND smb.status = 'completed'
\* WHERE smb.id IS NULL: the scout has no joined row for the badge.
NeedsBadge_without_any_row(smbTbl, user_id, name) ==
    ~ \E smb \in smbTbl : smb.scout_user_id = user_id /\ smb.merit_badge_name = name

NeedsBadge(smbTbl, user_id, name) ==
    ~ \E smb \in smbTbl : /\ smb.scout_user_id = user_id /\ smb.merit_badge_name = name
                          /\ smb.status = "completed"

\* ROUND(x * 100.0 / MAX(total, 1), 1), in tenths of a percent.
PctTenths(n, total) ==
    LET d == IF total > 1 THEN total ELSE 1
    IN  (n * 2000 + d) \div (2 * d)

\* The groups of the query: one row for every badge that passes the WHERE
\* clause with at least one scout.
QueryGroups(mbTbl, scoutsTbl, smbTbl, eagle_only) ==
    { [merit_badge |-> mb.name, is_eagle_required |-> mb.is_eagle_required,
       scouts_needing |->
           Cardinality({ s \in scoutsTbl : NeedsBadge(smbTbl, s.user_id, mb.name) }),
       total_scouts |-> Cardinality(scoutsTbl),
       pct_needing |->
           PctTenths(Cardinality({ s \in scoutsTbl : NeedsBadge(smbTbl, s.user_id, mb.name) }),
                     Cardinality(scoutsTbl))] :
        mb \in { b \in mbTbl :
                   /\ ActiveOf(b) = 1
                   /\ eagle_only => b.is_eagle_required = 1
                   /\ \E s \in scoutsTbl : NeedsBadge(smbTbl, s.user_id, b.name) } }

\* ORDER BY scouts_needing DESC, mb.is_eagle_required DESC
QueryOrdered(rows) ==
    \A i \in 1..Len(rows), j \in 1..Len(rows) : i < j =>
        \/ rows[i].scouts_needing > rows[j].scouts_needing
        \/ /\ rows[i].scouts_needing = rows[j].scouts_needing
           /\ rows[i].is_eagle_required >= rows[j].is_eagle_required

\* LIMIT ?
Limit(rows, limit) == SubSeq(rows, 1, IF limit < Len(rows) THEN limit ELSE Len(rows))

\* The results the query can return: the groups in any order that ORDER BY
\* allows (the order of ties is the engine's), cut at the limit.
most_common_incomplete_merit_badges(mbTbl, scoutsTbl, smbTbl, limit, eagle_only) ==
    LET groups == QueryGroups(mbTbl, scoutsTbl, smbTbl, eagle_only)
        n == Cardinality(groups)
    IN  { Limit(rows, limit) :
            rows \in { f \in [1..n -> groups] :
                         /\ \A i \in 1..n, j \in 1..n : i # j => f[i] # f[j]
                         /\ QueryOrdered(f) } }

\* The values of --limit: below, at and above the number of badges.
QueryLimits == { 1, 2, 20 }

QueryUsers == { "U1", "U2" }

QueryBadgeResponses ==
    StoreBadgeResponses \cup { [kind |-> "list", items |-> << Badge("Camping", 10, 1) >>] }

InitQuery ==
    /\ \E troop \in SUBSET QueryUsers :
         scouts = { [user_id |-> u, current_rank_id |-> NULL, birthdate |-> NULL] : u \in troop }
    /\ merit_badges = Seeded.merit_badges /\ sqlite_sequence = NoRowsYet
    /\ ranks = {} /\ requirements = {} /\ mb_requirements = {} /\ scout_advancements = {}
    /\ scout_requirement_completions = {} /\ scout_mb_requirement_completions = {}
    /\ scout_merit_badges = {} /\ scout_leadership = {}
    /\ NoSync
    /\ pc = "ready"
    /\ call = [op |-> "none", limit |-> 0, eagle_only |-> FALSE]
    /\ ret = <<>>
    /\ runs = 0

\* store_youth_merit_badges for a scout of the troop.
QuerySyncBadges ==
    /\ runs <= MaxRuns
    /\ \E sc \in scouts, mb_response \in QueryBadgeResponses :
         LET r == store_youth_merit_badges(scouts, merit_badges, scout_merit_badges,
                      sqlite_sequence.merit_badges, sqlite_sequence.scout_merit_badges,
                      sc.user_id, mb_response)
         IN  /\ merit_badges' = r.merit_badges
             /\ scout_merit_badges' = r.scout_merit_badges
             /\ sqlite_sequence' = [sqlite_sequence EXCEPT !.merit_badges = r.seq_mb,
                                                           !.scout_merit_badges = r.seq_smb]
    /\ call' = [op |-> "store_youth_merit_badges", limit |-> 0, eagle_only |-> FALSE]
    /\ ret' = <<>>
    /\ pc' = "ready"
    /\ runs' = runs + 1
    /\ UNCHANGED <<ranks, requirements, mb_requirements, scouts, scout_advancements,
                   scout_requirement_completions, scout_mb_requirement_completions,
                   scout_leadership, syncVars>>

\* most_common_incomplete_merit_badges(conn, limit, eagle_only)
CallMostCommonIncomplete ==
    /\ call.op # "most_common_incomplete_merit_badges"
    /\ \E limit \in QueryLimits, eagle_only \in BOOLEAN :
         /\ call' = [op |-> "most_common_incomplete_merit_badges", limit |-> limit,
                     eagle_only |-> eagle_only]
         /\ ret' \in most_common_incomplete_merit_badges(merit_badges, scouts,
                         scout_merit_badges, limit, eagle_only)
    /\ pc' = "returned"
    /\ UNCHANGED <<runs, tables, syncVars>>

NextQuery == QuerySyncBadges \/ CallMostCommonIncomplete

SpecQuery == InitQuery /\ [][NextQuery]_vars

\* -------------------------------------------------------------------------
\* C22 (as stated): for every active catalog badge, the result reports
\* scouts_needing = the number of scouts without a 'completed' row for the
\* badge and total_scouts = the number of scouts, and it omits a badge that
\* every scout has completed; with no scouts the result is empty.
Queried == call.op = "most_common_incomplete_merit_badges"

ScoutsNeeding(name) ==
    { s \in scouts :
        \A smb \in scout_merit_badges :
            (smb.scout_user_id = s.user_id /\ smb.merit_badge_name = name)
                => smb.status # "completed" }

RowsFor(name) == { i \in 1..Len(ret) : ret[i].merit_badge = name }

RowIsRight(i) ==
    /\ ret[i].scouts_needing = Cardinality(ScoutsNeeding(ret[i].merit_badge))
    /\ ret[i].total_scouts = Cardinality(scouts)
    /\ ret[i].scouts_needing > 0

C22_EveryNeededBadgeReported ==
    Queried =>
        /\ \A mb \in merit_badges :
             IF ScoutsNeeding(mb.name) = {} THEN RowsFor(mb.name) = {}
             ELSE \E i \in RowsFor(mb.name) : RowIsRight(i)
        /\ scouts = {} => ret = <<>>

\* C22 (amended): every reported row is right and no badge is reported
\* twice; a badge that some scout still needs is missing only because it is
\* not Eagle-required under eagle_only or because the limit cut it off, and
\* then the result holds limit rows, none of them needed by fewer scouts.
C22_ReportedRowsAreRight ==
    Queried =>
        /\ \A i \in 1..Len(ret) : RowIsRight(i) /\ RowsFor(ret[i].merit_badge) = {i}
        /\ Len(ret) <= call.limit
        /\ \A mb \in merit_badges :
             (ScoutsNeeding(mb.name) # {} /\ RowsFor(mb.name) = {}) =>
                \/ call.eagle_only /\ mb.is_eagle_required # 1
                \/ /\ Len(ret) = call.limit
                   /\ \A i \in 1..Len(ret) :
                        ret[i].scouts_needing >= Cardinality(ScoutsNeeding(mb.name))
        /\ call.eagle_only => \A i \in 1..Len(ret) : ret[i].is_eagle_required = 1
        /\ scouts = {} => ret = <<>>

\* Two scouts, one with an in-progress row and one with a completed row for
\* the same badge: the badge is reported as needed by one of two scouts.
C22_Witness ==
    /\ Queried /\ Cardinality(scouts) = 2
    /\ \E i \in 1..Len(ret) :
         /\ ret[i].scouts_needing = 1 /\ ret[i].total_scouts = 2
         /\ \E a \in scout_merit_badges, b \in scout_merit_badges :
              /\ a.merit_badge_name = ret[i].merit_badge /\ a.status = "in_progress"
              /\ b.merit_badge_name = ret[i].merit_badge /\ b.status = "completed"
    /\ \E mb \in merit_badges : ScoutsNeeding(mb.name) = {} /\ RowsFor(mb.name) = {}


\* =========================================================================
\* SpecLeadership: store_leadership called again and again.
\* =========================================================================
\* The positions of a response.
PositionItems ==
    { [positionTitle |-> "Patrol Leader", dateStarted |-> 1],
      [positionTitle |-> "", dateStarted |-> 0] }

\* The responses with n positions: a list, or a dict that holds the list
\* under "value" or under "positions".
LeadershipResponses(n) ==
    { [kind |-> "list", has_value |-> FALSE, value |-> <<>>, positions |-> <<>>, items |-> l] :
        l \in [1..n -> PositionItems] }
    \cup { [kind |-> "dict", has_value |-> TRUE, value |-> l, positions |-> <<>>,
            items |-> <<>>] : l \in { [i \in 1..n |-> p] :
                                        p \in PositionItems } }
    \cup { [kind |-> "dict", has_value |-> FALSE, value |-> <<>>, positions |-> l,
            items |-> <<>>] : l \in { [i \in 1..n |-> p] :
                                        p \in { [positionTitle |-> "",
                                                                   dateStarted |-> 0] } } }

\* The list a response holds.
LeadershipList(response) ==
    IF response.kind = "list" THEN response.items
    ELSE IF response.has_value THEN response.value ELSE response.positions

InitLeadership ==
    /\ scouts = { [user_id |-> "U1", current_rank_id |-> NULL, birthdate |-> NULL] }
    /\ merit_badges = Seeded.merit_badges /\ sqlite_sequence = NoRowsYet
    /\ ranks = {} /\ requirements = {} /\ mb_requirements = {} /\ scout_advancements = {}
    /\ scout_requirement_completions = {} /\ scout_mb_requirement_completions = {}
    /\ scout_merit_badges = {} /\ scout_leadership = {}
    /\ NoSync
    /\ pc = "ready"
    /\ call = [op |-> "none", user_id |-> "", positions |-> <<>>, times |-> 0]
    /\ ret = [count |-> 0]
    /\ runs = 0

\* store_leadership(conn, user_id, positions); times counts the calls in a
\* row with the same scout and the same positions.
CallStoreLeadership ==
    /\ pc = "ready" /\ runs <= MaxRuns
    /\ \E user_id \in { "U1", "U9" }, n \in 0..2 :
         \E positions \in LeadershipResponses(n) :
           LET r == store_leadership(scouts, scout_leadership, sqlite_sequence.scout_leadership,
                                     user_id, positions)
           IN  /\ call' = [op |-> "store_leadership", user_id |-> user_id,
                           positions |-> LeadershipList(positions),
                           times |-> IF /\ call.user_id = user_id
                                        /\ call.positions = LeadershipList(positions)
                                     THEN call.times + 1 ELSE 1]
               /\ pc' = IF r.raised THEN "raised" ELSE "ready"
               /\ scout_leadership' = IF r.raised THEN scout_leadership ELSE r.scout_leadership
               /\ sqlite_sequence' =
                      IF r.raised THEN sqlite_sequence
                      ELSE [sqlite_sequence EXCEPT !.scout_leadership = r.seq]
               /\ ret' = IF r.raised THEN ret ELSE [count |-> r.count]
    /\ runs' = runs + 1
    /\ UNCHANGED <<ranks, requirements, mb_requirements, scouts, scout_advancements,
                   scout_requirement_completions, scout_mb_requirement_completions,
                   merit_badges, scout_merit_badges, syncVars>>

NextLeadership == CallStoreLeadership

SpecLeadership == InitLeadership /\ [][NextLeadership]_vars

\* -------------------------------------------------------------------------
\* C28: store_leadership is append-only and not idempotent: a call that
\* returns keeps every existing row, adds one new row for the scout per
\* position of its input and returns that number; so after k calls with the
\* same n positions for a scout, and no other call, the scout has k * n
\* rows.
LeadershipRows(tbl, user_id) == { r \in tbl : r.scout_user_id = user_id }

C28_AppendsOneRowPerPosition ==
    [][ (runs' # runs /\ pc' = "ready") =>
          /\ scout_leadership \subseteq scout_leadership'
          /\ \A r \in scout_leadership' \ scout_leadership : r.scout_user_id = call'.user_id
          /\ Cardinality(scout_leadership' \ scout_leadership) = Len(call'.positions)
          /\ Cardinality(scout_leadership') =
                 Cardinality(scout_leadership) + Len(call'.positions)
          /\ ret'.count = Len(call'.positions) ]_vars
    /\ []( (pc = "ready" /\ call.times = runs) =>
             Cardinality(LeadershipRows(scout_leadership, call.user_id))
                 = runs * Len(call.positions) )

\* The same two positions, one the same as the other, were synced three
\* times for the scout: six rows.
C28_Witness ==
    /\ pc = "ready" /\ call.times = 3 /\ runs = 3 /\ Len(call.positions) = 2
    /\ call.positions[1] = call.positions[2]
    /\ Cardinality(LeadershipRows(scout_leadership, "U1")) = 6


\* =========================================================================
\* SpecMbScope: upsert_mb_requirements and store_youth_mb_requirements for
\* several badges and versions whose trees share requirement ids.
\* =========================================================================
\* The (badge id, version id) pairs: two versions of badge 10, and badge 11.
MbScopes == { <<10, "v1">>, <<10, "v2">>, <<11, "v1">> }

ScopeUsers == { "U1", "U2" }

\* get_mb_requirements: requirement 1 above requirement 2, or requirement 2
\* alone.
ScopeDefinitionTrees == { << Req(1, 0, << Req(2, 0, <<>>) >>) >>, << Req(2, 0, <<>>) >> }

\* get_youth_mb_requirements: the same trees with completion dates.
ScopeCompletionTrees == { << Req(1, 1, << Req(2, 0, <<>>) >>) >>, << Req(2, 1, <<>>) >> }

InitMbScope ==
    /\ scouts = { [user_id |-> u, current_rank_id |-> NULL, birthdate |-> NULL] :
                    u \in ScopeUsers }
    /\ merit_badges = Seeded.merit_badges /\ sqlite_sequence = NoRowsYet
    /\ ranks = {} /\ requirements = {} /\ mb_requirements = {} /\ scout_advancements = {}
    /\ scout_requirement_completions = {} /\ scout_mb_requirement_completions = {}
    /\ scout_merit_badges = {} /\ scout_leadership = {}
    /\ NoSync
    /\ pc = "ready"
    /\ call = [op |-> "none", user_id |-> "", scope |-> <<0, "">>]
    /\ ret = [count |-> 0]
    /\ runs = 0

\* upsert_mb_requirements(conn, mb_api_id, mb_version_id, requirements)
ScopeUpsertMbRequirements ==
    /\ pc = "ready" /\ runs < MaxRuns
    /\ \E scope \in MbScopes, tree \in ScopeDefinitionTrees :
         LET r == upsert_mb_requirements(mb_requirements, scope[1], scope[2], TreeList(tree))
         IN  /\ call' = [op |-> "upsert_mb_requirements", user_id |-> "", scope |-> scope]
             /\ mb_requirements' = r.mb_requirements
             /\ ret' = [count |-> r.count]
    /\ pc' = "ready"
    /\ runs' = runs + 1
    /\ UNCHANGED <<ranks, requirements, scouts, scout_advancements,
                   scout_requirement_completions, scout_mb_requirement_completions,
                   sqlite_sequence, badgeTables, syncVars>>

\* store_youth_mb_requirements(conn, user_id, mb_api_id, mb_version_id,
\* requirements)
ScopeStoreYouthMbRequirements ==
    /\ pc = "ready" /\ runs < MaxRuns
    /\ \E user_id \in ScopeUsers, scope \in MbScopes, tree \in ScopeCompletionTrees :
         LET r == store_youth_mb_requirements(scouts, scout_mb_requirement_completions,
                      sqlite_sequence.scout_mb_requirement_completions, user_id,
                      scope[1], scope[2], TreeList(tree))
         IN  /\ call' = [op |-> "store_youth_mb_requirements", user_id |-> user_id,
                         scope |-> scope]
             /\ scout_mb_requirement_completions' = r.completions
             /\ sqlite_sequence' =
                    [sqlite_sequence EXCEPT !.scout_mb_requirement_completions = r.seq]
             /\ ret' = [count |-> r.count]
    /\ pc' = "ready"
    /\ runs' = runs + 1
    /\ UNCHANGED <<ranks, requirements, mb_requirements, scouts, scout_advancements,
                   scout_requirement_completions, badgeTables, syncVars>>

NextMbScope == ScopeUpsertMbRequirements \/ ScopeStoreYouthMbRequirements

SpecMbScope == InitMbScope /\ [][NextMbScope]_vars

\* -------------------------------------------------------------------------
\* C27: merit-badge requirement rows stay scoped to their (badge id,
\* version id) pair: upsert_mb_requirements for one pair leaves every
\* mb_requirements row of another pair unchanged, and
\* store_youth_mb_requirements for one pair leaves the same scout's
\* completion rows of another pair unchanged, also when the two scopes
\* contain equal requirement ids.
ScopeOf(row) == <<row.mb_api_id, row.mb_version_id>>

C27_RowsStayInTheirScope ==
    [][ /\ (runs' # runs /\ call'.op = "upsert_mb_requirements") =>
              \A r \in mb_requirements : ScopeOf(r) # call'.scope => r \in mb_requirements'
        /\ (runs' # runs /\ call'.op = "store_youth_mb_requirements") =>
              \A r \in scout_mb_requirement_completions :
                  (r.scout_user_id = call'.user_id /\ ScopeOf(r) # call'.scope)
                      => r \in scout_mb_requirement_completions' ]_vars

\* The part of C27 that holds: rows of another scope survive a call whose
\* tree shares no requirement id with them, and completion rows of other
\* scouts always survive.
C27_DisjointIdsStayInTheirScope ==
    [][ /\ (runs' # runs /\ call'.op = "upsert_mb_requirements") =>
              \A r \in mb_requirements :
                  (ScopeOf(r) # call'.scope /\ \A n \in mb_requirements' :
                                                   ScopeOf(n) = call'.scope => n.id # r.id)
                      => r \in mb_requirements'
        /\ (runs' # runs /\ call'.op = "store_youth_mb_requirements") =>
              \A r \in scout_mb_requirement_completions :
                  \/ r \in scout_mb_requirement_completions'
                  \/ /\ r.scout_user_id = call'.user_id
                     /\ \E n \in scout_mb_requirement_completions' :
                          /\ n.scout_user_id = r.scout_user_id
                          /\ n.mb_requirement_id = r.mb_requirement_id
                          /\ ScopeOf(n) = call'.scope ]_vars


\* -------------------------------------------------------------------------
\* C24 (as stated): within one sync run there is at most one
\* get_rank_requirements call for every rank id.
C24_OneDefinitionFetchPerRank ==
    \A r \in DOMAIN rank_defn_calls : rank_defn_calls[r] <= 1

\* C24 (amended): get_rank_requirements is called only for a rank id that is
\* not in the cache; a call that succeeds and whose definitions are stored
\* puts the rank id into the cache, where it stays, so no call for it
\* follows; a call that fails does not, and the next scout with the rank in
\* progress fetches again: the calls for one rank id are at most one more
\* than the failed calls of the run.
C24_NoFetchOnceCached ==
    /\ [][ /\ \A r \in DOMAIN rank_defn_calls :
                rank_defn_calls'[r] # rank_defn_calls[r] =>
                   /\ r \notin rank_defn_cache
                   /\ (api_status' = 200 /\ pc' # "crashed") <=> r \in rank_defn_cache'
           /\ rank_defn_cache \subseteq rank_defn_cache' ]_vars
    /\ [] ( \A r \in DOMAIN rank_defn_calls : rank_defn_calls[r] <= api_errors + 1 )

\* The definitions of a rank were fetched for the first scout without
\* success and again, with success, for the second scout.
C24_Witness ==
    /\ scout_idx = 2 /\ pc = "rank_reqs"
    /\ rank_defn_calls[Head(pending)] = 2 /\ Head(pending) \in rank_defn_cache
    /\ api_status = 200 /\ LastCall.fn = "get_rank_requirements"


\* -------------------------------------------------------------------------
\* C25: with requirement fetching enabled and a successful ranks fetch,
\* when a scout's pass through the loop is over, the scout's completion
\* state has been fetched (get_youth_rank_requirements) for every rank of
\* the response that the scout has not yet completed, whether the rank's
\* definitions came from the cache, were fetched, or could not be fetched.
CompletionsFetched(rank_id) ==
    \E i \in 1..Len(api_log) :
        /\ api_log[i].fn = "get_youth_rank_requirements"
        /\ api_log[i].uid = ScoutOrder[FinishedScout] /\ api_log[i].id = rank_id

C25_CompletionsAlwaysFetched ==
    (FinishedScout # 0 /\ ~ skip_reqs /\ ranks_data # <<>>)
        => \A j \in 1..Len(InProgressRanks(ranks_data[1])) :
              CompletionsFetched(InProgressRanks(ranks_data[1])[j])

\* The part of C25 that holds: the completion state is fetched for every
\* such rank whose definitions are in the cache when the pass is over.
C25_CompletionsFetchedWhenDefined ==
    (FinishedScout # 0 /\ ~ skip_reqs /\ ranks_data # <<>>)
        => \A j \in 1..Len(InProgressRanks(ranks_data[1])) :
              InProgressRanks(ranks_data[1])[j] \in rank_defn_cache
                 => CompletionsFetched(InProgressRanks(ranks_data[1])[j])


\* -------------------------------------------------------------------------
\* C26: within one sync run, all scout_mb_requirement_completions rows
\* written for one badge id carry the same mb_version_id, and it equals the
\* mb_version_id of the definition rows stored for that badge in the run.
\* (The run starts without rows in either table.)
C26_OneVersionPerBadge ==
    \A c \in scout_mb_requirement_completions :
        /\ \A o \in scout_mb_requirement_completions :
              o.mb_api_id = c.mb_api_id => o.mb_version_id = c.mb_version_id
        /\ \A d \in mb_requirements :
              d.mb_api_id = c.mb_api_id => d.mb_version_id = c.mb_version_id

\* The part of C26 that holds: when the cached version id is not empty, all
\* completion rows of the badge carry it, and so do its definition rows.
C26_OneVersionPerBadgeUnlessEmpty ==
    \A v \in mb_defn_cache : v.version_id # "" =>
        /\ \A c \in scout_mb_requirement_completions :
              c.mb_api_id = v.mb_id => c.mb_version_id = v.version_id
        /\ \A d \in mb_requirements :
              d.mb_api_id = v.mb_id => d.mb_version_id = v.version_id


\* -------------------------------------------------------------------------
\* C29: the orchestrator and store_youth_ranks agree on which ranks are
\* completed: during a scout's pass, after a successful ranks fetch, every
\* program-2 rank entry with an id in the scout's response is treated by the
\* orchestrator as not yet completed exactly when store_youth_ranks stored
\* that rank with status 'in_progress'.
InScoutPass == pc \in (LoopSteps \ { "ranks" }) \cup { "done" }

TreatedAsInProgress(rank_id) ==
    \E j \in 1..Len(InProgressRanks(ranks_data[1])) :
        InProgressRanks(ranks_data[1])[j] = rank_id

StoredInProgress(uid, rank_id) ==
    \E a \in scout_advancements :
        /\ a.scout_user_id = uid /\ a.advancement_type = "rank"
        /\ a.advancement_id = rank_id /\ a.status = "in_progress"

C29_OrchestratorAgreesWithStore ==
    (InScoutPass /\ ranks_data # <<>>) =>
        LET entries == ProgramRanks(ranks_data[1].program)
        IN  \A i \in 1..Len(entries) :
              (entries[i].prog_id = SCOUTS_BSA_PROGRAM_ID /\ entries[i].rank.id # 0)
                 => (TreatedAsInProgress(entries[i].rank.id)
                        <=> StoredInProgress(ScoutOrder[scout_idx], entries[i].rank.id))

\* The part of C29 that holds: a rank the orchestrator treats as not yet
\* completed is stored as 'in_progress'; the converse fails for an entry that
\* has dateCompleted and no dateEarned.
C29_TreatedInProgressIsStoredInProgress ==
    (InScoutPass /\ ranks_data # <<>>) =>
        LET entries == ProgramRanks(ranks_data[1].program)
        IN  \A i \in 1..Len(entries) :
              (entries[i].prog_id = SCOUTS_BSA_PROGRAM_ID /\ entries[i].rank.id # 0)
                 => /\ TreatedAsInProgress(entries[i].rank.id)
                          => StoredInProgress(ScoutOrder[scout_idx], entries[i].rank.id)
                    /\ ( /\ StoredInProgress(ScoutOrder[scout_idx], entries[i].rank.id)
                         /\ ~ TreatedAsInProgress(entries[i].rank.id) )
                          => (entries[i].rank.dateEarned = 0
                                /\ entries[i].rank.dateCompleted # 0)


\* -------------------------------------------------------------------------
\* C30: a run of the native sync that ends through its own control flow
\* emits exactly one terminal record, 'complete' (exit code 0) or 'error'
\* (exit code 1) and never both; the terminal record is the last record of
\* the run, which takes no step after it; and the step that emits an 'error'
\* record writes nothing to the store.
TerminalRecord(t) == t.kind \in { "complete", "error" }

TerminalRecords(tokens) == { i \in 1..Len(tokens) : TerminalRecord(tokens[i]) }

\* The run has ended: with exit code 0 after the loop or without scouts,
\* or with exit code 1.
NativeExit0 == pc \in { "done", "no_scouts" }
NativeExit1 == pc \in { "aborted", "auth_failed" }

C30_OneTerminalRecord ==
    [][ mode = "native" =>
          /\ ~ NativeExit0 /\ ~ NativeExit1 /\ pc # "crashed"
          /\ TerminalRecords(out') # {} <=> (NativeExit0' \/ NativeExit1')
          /\ TerminalRecords(out') # {} =>
                /\ TerminalRecords(out') = { Len(out') }
                /\ NativeExit0' <=> out'[Len(out')].kind = "complete"
                /\ NativeExit1' <=> out'[Len(out')].kind = "error"
                /\ NativeExit1' => UNCHANGED tables ]_vars

\* A native run over the largest roster ended with an error record at the
\* ranks fetch of the last scout, after rows of earlier scouts were stored.
C30_Witness ==
    /\ mode = "native" /\ pc = "aborted" /\ scout_idx = MaxScouts
    /\ out[Len(out)].kind = "error" /\ scout_advancements # {}

====
